---- MODULE Spec2Model ----
(***************************************************************************)
(* A model of the orismologer translation engine: the expression parser    *)
(* and evaluator (oparse), the function library (functions) and the        *)
(* transformation evaluation of Orismologer.eval with its vendor filter.   *)
(*                                                                         *)
(* Go strings that the program inspects character by character (OIDs,      *)
(* string values) are sequences of one-character strings.  Names that are  *)
(* only compared for equality (identifiers, vendors, targets) are strings. *)
(* float64 values are exact rationals n/d (d > 0, lowest terms).           *)
(***************************************************************************)
EXTENDS Integers, Sequences, FiniteSets, TLC

(***************************************************************************)
(* Bounds of the model.                                                    *)
(***************************************************************************)
\* Go aborts the process when the goroutine stack is exhausted; the model
\* exhausts it after StackLimit nested calls of Orismologer.eval.
StackLimit == 5
\* The longest list of alternative expressions drawn for the rule "gen".
MaxAlts == 2
\* The longest list of OIDs drawn for a NocPath given to canResolve.
MaxOids == 2

\* The most declarations at the top of a mappings file.
MaxNodes == 2

\* The most segments of a path asked of the tree.
MaxSegments == 3

\* The most pieces (a separator or a name) of a path given to normalizePath.
MaxPieces == 4

(***************************************************************************)
(* Character strings.                                                      *)
(***************************************************************************)
Digits == <<"0", "1", "2", "3", "4", "5", "6", "7", "8", "9">>

IsDigit(c) == \E i \in 1..10 : Digits[i] = c

DigitVal(c) == (CHOOSE i \in 1..10 : Digits[i] = c) - 1

\* strings.HasPrefix(s, prefix)
HasPrefix(s, prefix) ==
  /\ Len(s) >= Len(prefix)
  /\ SubSeq(s, 1, Len(prefix)) = prefix

RECURSIVE DigitsToNat(_)
DigitsToNat(s) ==
  IF s = <<>> THEN 0
  ELSE 10 * DigitsToNat(SubSeq(s, 1, Len(s) - 1)) + DigitVal(s[Len(s)])

RECURSIVE NatToChars(_)
NatToChars(n) ==
  IF n < 10 THEN <<Digits[n + 1]>>
  ELSE NatToChars(n \div 10) \o <<Digits[(n % 10) + 1]>>

(***************************************************************************)
(* Values of Go's interface{} that reach the evaluator, and the outcome of *)
(* a call: a value, an error, or the abort of the process (a panic or      *)
(* log.Fatal).                                                             *)
(***************************************************************************)
RECURSIVE GCD(_, _)
GCD(a, b) == IF b = 0 THEN a ELSE GCD(b, a % b)

Abs(n) == IF n < 0 THEN -n ELSE n

NilV == [t |-> "nil", n |-> 0, d |-> 1, s |-> <<>>]

IntV(n) == [t |-> "int", n |-> n, d |-> 1, s |-> <<>>]

StringV(s) == [t |-> "string", n |-> 0, d |-> 1, s |-> s]

\* d = 0 stands for an infinity (math.Pow(0, -1)), n = d = 0 for NaN.
FloatV(n, d) ==
  IF d = 0 THEN [t |-> "float", n |-> (IF n > 0 THEN 1 ELSE IF n < 0 THEN -1 ELSE 0),
                 d |-> 0, s |-> <<>>]
  ELSE LET g == GCD(Abs(n), Abs(d))
           sg == IF d < 0 THEN -1 ELSE 1
       IN [t |-> "float", n |-> sg * (n \div g), d |-> sg * (d \div g), s |-> <<>>]

Ok(v) == [st |-> "ok", v |-> v, e |-> "", unresolvable |-> FALSE]

Err(e) == [st |-> "err", v |-> NilV, e |-> e, unresolvable |-> FALSE]

Panic(e) == [st |-> "panic", v |-> NilV, e |-> e, unresolvable |-> FALSE]

(***************************************************************************)
(* Tokens of an expression string, as the lexer hands them to the parser.  *)
(***************************************************************************)
TNum(n) == [k |-> "Number", s |-> "", n |-> n, c |-> <<>>]

TStr(c) == [k |-> "String", s |-> "", n |-> 0, c |-> c]

TId(s) == [k |-> "Ident", s |-> s, n |-> 0, c |-> <<>>]

TP(s) == [k |-> "Punct", s |-> s, n |-> 0, c |-> <<>>]

IsPunct(ts, ps) == ts # <<>> /\ Head(ts).k = "Punct" /\ Head(ts).s \in ps

(***************************************************************************)
(* The grammar of oparse (the struct tags of Arg, Function, Value, Factor, *)
(* OpFactor, Term, OpTerm, Expression) as an ordered-choice parser.        *)
(***************************************************************************)
PFail == [ok |-> FALSE, ast |-> <<>>, rest |-> <<>>]

POk(ast, rest) == [ok |-> TRUE, ast |-> ast, rest |-> rest]

NoExponent == [kind |-> "none"]

RECURSIVE parseExpression(_), parseOpTerms(_, _), parseTerm(_), parseOpFactors(_, _)
RECURSIVE parseFactor(_), parseValue(_), parseFunction(_), parseArgs(_, _)

functionClose(name, a) ==
  IF IsPunct(a.rest, {")"})
  THEN POk([kind |-> "Function", Name |-> name, Args |-> a.ast], Tail(a.rest))
  ELSE PFail

\* Function: @Ident "(" { @@ } ")"
parseFunction(ts) ==
  IF Len(ts) >= 2 /\ ts[1].k = "Ident" /\ ts[2] = TP("(")
  THEN functionClose(ts[1].s, parseArgs(SubSeq(ts, 3, Len(ts)), <<>>))
  ELSE PFail

argsMore(ts, acc, e) ==
  IF ~e.ok THEN POk(acc, ts)
  ELSE parseArgs(IF IsPunct(e.rest, {","}) THEN Tail(e.rest) ELSE e.rest, Append(acc, e.ast))

\* Arg: Expression [ "," ], repeated
parseArgs(ts, acc) == argsMore(ts, acc, parseExpression(ts))

functionOrVariable(ts, f) ==
  IF f.ok THEN f ELSE POk([kind |-> "Variable", Variable |-> Head(ts).s], Tail(ts))

subexpressionClose(e) ==
  IF e.ok /\ IsPunct(e.rest, {")"})
  THEN POk([kind |-> "Subexpression", Subexpression |-> e.ast], Tail(e.rest))
  ELSE PFail

\* Value: Number | String | Function | Variable | "(" Expression ")"
parseValue(ts) ==
  IF ts = <<>> THEN PFail
  ELSE CASE Head(ts).k = "Number" ->
              POk([kind |-> "Number", Number |-> FloatV(Head(ts).n, 1)], Tail(ts))
         [] Head(ts).k = "String" ->
              POk([kind |-> "StrLiteral", StrLiteral |-> Head(ts).c], Tail(ts))
         [] Head(ts).k = "Ident" -> functionOrVariable(ts, parseFunction(ts))
         [] Head(ts) = TP("(") -> subexpressionClose(parseExpression(Tail(ts)))
         [] OTHER -> PFail

factorExponent(b, x) ==
  IF x.ok THEN POk([Base |-> b.ast, Exponent |-> x.ast], x.rest)
  ELSE POk([Base |-> b.ast, Exponent |-> NoExponent], b.rest)

factorBase(b) ==
  IF ~b.ok THEN PFail
  ELSE factorExponent(b, IF IsPunct(b.rest, {"^"}) THEN parseValue(Tail(b.rest)) ELSE PFail)

\* Factor: Value [ "^" Value ]
parseFactor(ts) == factorBase(parseValue(ts))

opFactorsMore(ts, acc, f) ==
  IF f.ok
  THEN parseOpFactors(f.rest, Append(acc, [Operator |-> Head(ts).s, Factor |-> f.ast]))
  ELSE POk(acc, ts)

parseOpFactorsAnyOperator(ts, acc) ==
  opFactorsMore(ts, acc,
                IF IsPunct(ts, {"*", "/", "+", "-"}) THEN parseFactor(Tail(ts)) ELSE PFail)

\* OpFactor: ("*" | "/") Factor, repeated
parseOpFactors(ts, acc) ==
  opFactorsMore(ts, acc, IF IsPunct(ts, {"*", "/"}) THEN parseFactor(Tail(ts)) ELSE PFail)

termRight(l, r) == POk([Left |-> l.ast, Right |-> r.ast], r.rest)

termLeft(l) == IF ~l.ok THEN PFail ELSE termRight(l, parseOpFactors(l.rest, <<>>))

\* Term: Factor { OpFactor }
parseTerm(ts) == termLeft(parseFactor(ts))

opTermsMore(ts, acc, t) ==
  IF t.ok
  THEN parseOpTerms(t.rest, Append(acc, [Operator |-> Head(ts).s, Term |-> t.ast]))
  ELSE POk(acc, ts)

\* OpTerm: ("+" | "-") Term, repeated
parseOpTerms(ts, acc) ==
  opTermsMore(ts, acc, IF IsPunct(ts, {"+", "-"}) THEN parseTerm(Tail(ts)) ELSE PFail)

expressionRight(l, r) == POk([Left |-> l.ast, Right |-> r.ast], r.rest)

expressionLeft(l) == IF ~l.ok THEN PFail ELSE expressionRight(l, parseOpTerms(l.rest, <<>>))

\* Expression: Term { OpTerm }
parseExpression(ts) == expressionLeft(parseTerm(ts))

parseWhole(e) == IF e.ok /\ e.rest = <<>> THEN POk(e.ast, <<>>) ELSE PFail

\* oparse.Parse: the whole input must be one expression.
Parse(ts) == parseWhole(parseExpression(ts))

(***************************************************************************)
(* Expression.Identifiers: the variables and the function names of an      *)
(* expression, in source order, without deduplication.                     *)
(***************************************************************************)
NoIds == [variables |-> <<>>, functions |-> <<>>]

IdsCat(a, b) == [variables |-> a.variables \o b.variables,
                 functions |-> a.functions \o b.functions]

RECURSIVE Identifiers(_), termIdentifiers(_), factorIdentifiers(_), valueIdentifiers(_)
RECURSIVE functionIdentifiers(_), argsIdentifiers(_, _), opTermsIdentifiers(_, _)
RECURSIVE opFactorsIdentifiers(_, _)

argsIdentifiers(args, i) ==
  IF i > Len(args) THEN NoIds
  ELSE IdsCat(Identifiers(args[i]), argsIdentifiers(args, i + 1))

functionIdentifiers(f) ==
  IdsCat([variables |-> <<>>, functions |-> <<f.Name>>], argsIdentifiers(f.Args, 1))

valueIdentifiers(v) ==
  CASE v.kind = "Variable" -> [variables |-> <<v.Variable>>, functions |-> <<>>]
    [] v.kind = "Function" -> functionIdentifiers(v)
    [] v.kind = "Subexpression" -> Identifiers(v.Subexpression)
    [] OTHER -> NoIds

factorIdentifiers(f) ==
  IF f.Exponent # NoExponent
  THEN IdsCat(valueIdentifiers(f.Base), valueIdentifiers(f.Exponent))
  ELSE valueIdentifiers(f.Base)

opFactorsIdentifiers(right, i) ==
  IF i > Len(right) THEN NoIds
  ELSE IdsCat(factorIdentifiers(right[i].Factor), opFactorsIdentifiers(right, i + 1))

termIdentifiers(t) ==
  IdsCat(factorIdentifiers(t.Left), opFactorsIdentifiers(t.Right, 1))

opTermsIdentifiers(right, i) ==
  IF i > Len(right) THEN NoIds
  ELSE IdsCat(termIdentifiers(right[i].Term), opTermsIdentifiers(right, i + 1))

Identifiers(e) ==
  IdsCat(termIdentifiers(e.Left), opTermsIdentifiers(e.Right, 1))

(***************************************************************************)
(* The function library (package functions).                               *)
(***************************************************************************)
\* var registry: the registered names, each with the types of the parameters
\* of its function (interface{} takes any value, string only a string).
registry ==
  [to_int |-> <<"interface">>,
   to_str |-> <<"interface">>,
   time_since_epoch |-> <<"interface", "string", "string">>]

\* NewLibrary
NewLibrary == registry

\* makeDummyLibrary of the tests of the package: functions of no, one, two
\* and three results.
makeDummyLibrary ==
  [dummy |-> <<"string">>,
   noOutputs |-> <<>>,
   threeOutputs |-> <<>>,
   oneOutput |-> <<>>,
   secondOutputNotError |-> <<>>]

\* Library.Contains
Contains(l, funcName) == funcName \in DOMAIN l

\* strconv.Atoi on a character string: an optional sign and decimal digits.
Atoi(s) ==
  LET signed == s # <<>> /\ s[1] \in {"+", "-"}
      body == IF signed THEN Tail(s) ELSE s
  IN IF body # <<>> /\ \A i \in 1..Len(body) : IsDigit(body[i])
     THEN [ok |-> TRUE,
           n |-> IF signed /\ s[1] = "-" THEN -DigitsToNat(body) ELSE DigitsToNat(body)]
     ELSE [ok |-> FALSE, n |-> 0]

toStr(value) ==
  IF value.t = "string" THEN Ok(value) ELSE Err("could not be cast to string")

toInt(value) ==
  IF value.t = "string" /\ Atoi(value.s).ok THEN Ok(IntV(Atoi(value.s).n))
  ELSE IF value.t = "int" THEN Ok(value)
  ELSE Err("could not be cast to int")

(***************************************************************************)
(* Integers of 64 bits.  A natural number is the sequence of its digits in *)
(* base 10000, the least significant first, without leading zeros; a       *)
(* signed number is a sign and a magnitude.                                *)
(***************************************************************************)
RECURSIVE BigTrim(_)
BigTrim(x) ==
  IF x # <<>> /\ x[Len(x)] = 0 THEN BigTrim(SubSeq(x, 1, Len(x) - 1)) ELSE x

RECURSIVE Big(_)
Big(n) == IF n = 0 THEN <<>> ELSE <<n % 10000>> \o Big(n \div 10000)

BigLimb(x, i) == IF i <= Len(x) THEN x[i] ELSE 0

RECURSIVE bigAddFrom(_, _, _, _)
bigAddFrom(a, b, i, carry) ==
  IF i > Len(a) /\ i > Len(b) THEN Big(carry)
  ELSE <<(BigLimb(a, i) + BigLimb(b, i) + carry) % 10000>>
         \o bigAddFrom(a, b, i + 1, (BigLimb(a, i) + BigLimb(b, i) + carry) \div 10000)

BigAdd(a, b) == BigTrim(bigAddFrom(a, b, 1, 0))

\* a - b for a >= b
RECURSIVE bigSubFrom(_, _, _, _)
bigSubFrom(a, b, i, borrow) ==
  IF i > Len(a) THEN <<>>
  ELSE <<(a[i] - BigLimb(b, i) - borrow + 10000) % 10000>>
         \o bigSubFrom(a, b, i + 1, IF a[i] - BigLimb(b, i) - borrow < 0 THEN 1 ELSE 0)

BigSub(a, b) == BigTrim(bigSubFrom(a, b, 1, 0))

\* a * k for 0 <= k <= 100000
RECURSIVE bigMulFrom(_, _, _, _)
bigMulFrom(a, k, i, carry) ==
  IF i > Len(a) THEN Big(carry)
  ELSE <<(a[i] * k + carry) % 10000>> \o bigMulFrom(a, k, i + 1, (a[i] * k + carry) \div 10000)

BigMul(a, k) == BigTrim(bigMulFrom(a, k, 1, 0))

\* the quotient of a by k, for 0 < k <= 100000
RECURSIVE bigDivFrom(_, _, _, _)
bigDivFrom(a, k, i, rem) ==
  IF i = 0 THEN <<>>
  ELSE bigDivFrom(a, k, i - 1, (rem * 10000 + a[i]) % k) \o <<(rem * 10000 + a[i]) \div k>>

BigDiv(a, k) == BigTrim(bigDivFrom(a, k, Len(a), 0))

BigLess(a, b) ==
  \/ Len(a) < Len(b)
  \/ /\ Len(a) = Len(b)
     /\ \E i \in 1..Len(a) : a[i] < b[i] /\ \A j \in (i + 1)..Len(a) : a[j] = b[j]

\* x << 32 and x >> 32
ShiftLeft32(x) == BigMul(BigMul(x, 65536), 65536)

ShiftRight32(x) == BigDiv(BigDiv(x, 65536), 65536)

TwoTo64 == ShiftLeft32(ShiftLeft32(Big(1)))

TwoTo63 == BigDiv(TwoTo64, 2)

\* The uint64 of a natural number: its residue modulo 2^64.
Uint64(x) == BigSub(x, ShiftLeft32(ShiftLeft32(ShiftRight32(ShiftRight32(x)))))

\* a - b in uint64
Uint64Sub(a, b) == IF BigLess(a, b) THEN BigSub(TwoTo64, BigSub(b, a)) ELSE BigSub(a, b)

Signed(neg, mag) == [neg |-> neg /\ mag # <<>>, mag |-> mag]

\* int64(u) of a uint64
Int64(u) ==
  IF BigLess(u, TwoTo63) THEN Signed(FALSE, u) ELSE Signed(TRUE, BigSub(TwoTo64, u))

\* The int64 that an exact result wraps to.
WrapInt64(z) ==
  IF z.neg THEN Int64(Uint64(BigSub(TwoTo64, Uint64(z.mag))))
  ELSE Int64(Uint64(z.mag))

SignedAdd(a, b) ==
  IF a.neg = b.neg THEN Signed(a.neg, BigAdd(a.mag, b.mag))
  ELSE IF BigLess(a.mag, b.mag) THEN Signed(b.neg, BigSub(b.mag, a.mag))
  ELSE Signed(a.neg, BigSub(a.mag, b.mag))

\* z * 10^9 and the quotient of z by 10^6, rounded toward zero
TimesBillion(z) == Signed(z.neg, BigMul(BigMul(z.mag, 100000), 10000))

QuoMillion(z) == Signed(z.neg, BigDiv(BigDiv(z.mag, 1000), 1000))

\* A signed number as an integer of the model's values (31 bits).
RECURSIVE SmallNat(_)
SmallNat(x) == IF x = <<>> THEN 0 ELSE Head(x) + 10000 * SmallNat(Tail(x))

Small(z) == IF z.neg THEN -SmallNat(z.mag) ELSE SmallNat(z.mag)

HexDigits == <<"0", "1", "2", "3", "4", "5", "6", "7", "8", "9",
               "a", "b", "c", "d", "e", "f">>

UpperHexDigits == <<"0", "1", "2", "3", "4", "5", "6", "7", "8", "9",
                    "A", "B", "C", "D", "E", "F">>

IsHexDigit(c) == \E i \in 1..16 : HexDigits[i] = c \/ UpperHexDigits[i] = c

HexVal(c) == (CHOOSE i \in 1..16 : HexDigits[i] = c \/ UpperHexDigits[i] = c) - 1

\* The number that the digits s[i..j] write, for at most four digits.
RECURSIVE hexWord(_, _, _)
hexWord(s, i, j) == IF j < i THEN 0 ELSE hexWord(s, i, j - 1) * 16 + HexVal(s[j])

\* The number that the first n digits of s write, four digits at a time.
RECURSIVE hexFrom(_, _)
hexFrom(s, n) ==
  IF n <= 4 THEN Big(hexWord(s, 1, n))
  ELSE BigAdd(BigMul(hexFrom(s, n - 4), 65536), Big(hexWord(s, n - 3, n)))

HexToNat(s) == hexFrom(s, Len(s))

\* strconv.ParseUint(s, 16, 64): 0 with a syntax error, the largest uint64
\* with a range error.
ParseUint16(s) ==
  IF s = <<>> \/ \E i \in 1..Len(s) : ~IsHexDigit(s[i]) THEN [ok |-> FALSE, n |-> <<>>]
  ELSE IF ~BigLess(HexToNat(s), TwoTo64) THEN [ok |-> FALSE, n |-> BigSub(TwoTo64, Big(1))]
  ELSE [ok |-> TRUE, n |-> HexToNat(s)]

\* strings.Replace(s, " ", "", -1)
WithoutSpaces(s) == SelectSeq(s, LAMBDA c : c # " ")

\* const offset = 2208988800
offset == BigAdd(BigMul(Big(22089), 100000), Big(88800))

\* time.Unix(sec, nsec) for 0 <= nsec < 10^9
timeUnix(sec, nsec) == [ok |-> TRUE, sec |-> sec, nsec |-> nsec]

NoTime == [ok |-> FALSE, sec |-> Signed(FALSE, <<>>), nsec |-> Signed(FALSE, <<>>)]

\* The NTP branch of timeSinceEpoch: the error of ParseUint is printed and
\* the branch goes on with the number ParseUint returned.
ntpTime(timeStamp) ==
  LET ntp == ParseUint16(WithoutSpaces(timeStamp))
      seconds == Uint64Sub(ShiftRight32(ntp.n), offset)
      fractional == BigSub(ntp.n, ShiftLeft32(ShiftRight32(ntp.n)))
      nanos == ShiftRight32(Uint64(BigMul(BigMul(fractional, 100000), 10000)))
  IN timeUnix(Int64(seconds), Int64(nanos))

RECURSIVE daysBefore(_)
daysBefore(year) ==
  IF year <= 1970 THEN 0
  ELSE daysBefore(year - 1)
         + (IF (year - 1) % 4 = 0 /\ ((year - 1) % 100 # 0 \/ (year - 1) % 400 = 0)
            THEN 366 ELSE 365)

\* time.RFC3339
RFC3339 == <<"2", "0", "0", "6", "-", "0", "1", "-", "0", "2", "T", "1", "5", ":",
             "0", "4", ":", "0", "5", "Z", "0", "7", ":", "0", "0">>

\* The first instant of a year from 1970 on, in UTC.
startOfYear(year) ==
  IF Len(year) = 4 /\ (\A i \in 1..4 : IsDigit(year[i])) /\ DigitsToNat(year) >= 1970
  THEN timeUnix(Signed(FALSE, BigMul(Big(daysBefore(DigitsToNat(year))), 86400)),
                Signed(FALSE, <<>>))
  ELSE NoTime

\* time.Parse for the layout "2006" (a year of four digits) and for the
\* first instant of a year in the layout RFC3339.
timeParse(format, timeStamp) ==
  CASE format = <<"2", "0", "0", "6">> -> startOfYear(timeStamp)
    [] format = RFC3339 ->
         IF Len(timeStamp) = 20
              /\ SubSeq(timeStamp, 5, 20)
                   = <<"-", "0", "1", "-", "0", "1", "T", "0", "0", ":",
                       "0", "0", ":", "0", "0", "Z">>
         THEN startOfYear(SubSeq(timeStamp, 1, 4))
         ELSE NoTime

\* Time.UnixNano: sec * 10^9 + nsec in int64
UnixNano(t) == WrapInt64(SignedAdd(WrapInt64(TimesBillion(t.sec)), t.nsec))

Counted(z) == [st |-> "ok", z |-> z, e |-> ""]

NotCounted(e) == [st |-> "err", z |-> Signed(FALSE, <<>>), e |-> e]

\* The switch on the units of timeSinceEpoch (int has 64 bits).
unitsOf(t, units) ==
  CASE units = <<"s">> -> Counted(t.sec)
    [] units = <<"m", "s">> -> Counted(QuoMillion(UnixNano(t)))
    [] units = <<"n", "s">> -> Counted(UnixNano(t))
    [] OTHER -> NotCounted("unrecognised unit")

timeOf(format, timeStamp) ==
  IF format = <<"n", "t", "p">> THEN ntpTime(timeStamp)
  ELSE IF format = <<"r", "f", "c", "3", "3", "3", "9">> THEN timeParse(RFC3339, timeStamp)
  ELSE timeParse(format, timeStamp)

countOf(t, units) ==
  IF ~t.ok THEN NotCounted("error parsing timestamp") ELSE unitsOf(t, units)

\* timeSinceEpoch: the number it returns, or the error
timeCount(value, format, units) ==
  IF value.t # "string" THEN NotCounted("requested conversion of a value that is not a string")
  ELSE countOf(timeOf(format, value.s), units)

valueOf(c) == IF c.st = "ok" THEN Ok(IntV(Small(c.z))) ELSE Err(c.e)

\* timeSinceEpoch, with its number as a value of the model
timeSinceEpoch(value, format, units) == valueOf(timeCount(value, format, units))

\* One result of a function, as reflect hands it back: a value, a nil error
\* or an error.
Result(v) == [k |-> "value", v |-> v, e |-> ""]

NilResult == [k |-> "nil", v |-> NilV, e |-> ""]

ErrorResult(e) == [k |-> "error", v |-> NilV, e |-> e]

\* The two results (value, error) of a function of the registry.
results(out) ==
  IF out.st = "ok" THEN <<Result(out.v), NilResult>>
  ELSE <<Result(NilV), ErrorResult(out.e)>>

\* reflect.Value.Call of the function registered under funcName: the results
\* of the function.
fCall(funcName, args) ==
  CASE funcName = "to_int" -> results(toInt(args[1]))
    [] funcName = "to_str" -> results(toStr(args[1]))
    [] funcName = "time_since_epoch" ->
         results(timeSinceEpoch(args[1], args[2].s, args[3].s))
    [] funcName = "dummy" -> <<Result(args[1])>>
    [] funcName = "noOutputs" -> <<>>
    [] funcName = "oneOutput" -> <<Result(StringV(<<"1">>))>>
    [] funcName = "threeOutputs" ->
         <<Result(StringV(<<"1">>)), Result(StringV(<<"2">>)), Result(StringV(<<"2">>))>>
    [] funcName = "secondOutputNotError" ->
         <<Result(StringV(<<"1">>)), Result(StringV(<<"2">>))>>

\* unwrapOutput
unwrapOutput(output, funcName) ==
  CASE Len(output) = 1 -> Ok(output[1].v)
    [] Len(output) = 2 ->
         IF output[2].k = "nil" THEN Ok(output[1].v)
         ELSE IF output[2].k # "error"
         THEN Err("function returned two values, but the second was not an error")
         ELSE Err(output[2].e)
    [] OTHER -> Err("function returned unexpected number of results")

\* reflect's Call panics on the zero reflect.Value (a nil argument) and on an
\* argument that is not assignable to the type of its parameter.
Assignable(arg, type) ==
  /\ arg.t # "nil"
  /\ type = "string" => arg.t = "string"

\* What Library.Call hands back: the value or the error (or the abort), and
\* the functions it has invoked.
Called(out, invoked) == [out |-> out, invoked |-> invoked]

\* Library.Call with getFunc and wrapArgs, before the check of the arity.
CallAnyNumber(l, funcName, args) ==
  IF ~Contains(l, funcName) THEN Called(Err("function undefined"), <<>>)
  ELSE IF Len(args) # Len(l[funcName])
            \/ \E i \in 1..Len(args) : ~Assignable(args[i], l[funcName][i])
  THEN Called(Panic("reflect: Call with a wrong argument"), <<>>)
  ELSE Called(unwrapOutput(fCall(funcName, args), funcName), <<funcName>>)

\* Library.Call with getFunc and wrapArgs
Call(l, funcName, args) ==
  IF ~Contains(l, funcName) THEN Called(Err("function undefined"), <<>>)
  ELSE IF Len(args) # Len(l[funcName])
  THEN Called(Err("wrong number of arguments"), <<>>)
  ELSE IF \E i \in 1..Len(args) : ~Assignable(args[i], l[funcName][i])
  THEN Called(Panic("reflect: Call with a wrong argument"), <<>>)
  ELSE Called(unwrapOutput(fCall(funcName, args), funcName), <<funcName>>)

\* The FunctionCaller of the engine: Library.Call of NewLibrary().
LibraryCall(funcName, args) == Call(NewLibrary, funcName, args).out

(***************************************************************************)
(* The evaluator of oparse.                                                *)
(***************************************************************************)
RECURSIVE fracChars(_, _, _)
fracChars(r, d, k) ==
  IF r = 0 \/ k = 0 THEN <<>>
  ELSE <<Digits[((10 * r) \div d) + 1]>> \o fracChars((10 * r) % d, d, k - 1)

\* fmt.Sprint of a value (a float64 prints in its shortest form).
Sprint(v) ==
  CASE v.t = "string" -> v.s
    [] v.t = "nil" -> <<"<", "n", "i", "l", ">">>
    [] v.t = "int" -> (IF v.n < 0 THEN <<"-">> ELSE <<>>) \o NatToChars(Abs(v.n))
    [] v.t = "float" /\ v.d = 0 ->
         IF v.n = 0 THEN <<"N", "a", "N">>
         ELSE <<(IF v.n > 0 THEN "+" ELSE "-"), "I", "n", "f">>
    [] v.t = "float" /\ v.d # 0 ->
         (IF v.n < 0 THEN <<"-">> ELSE <<>>)
           \o NatToChars(Abs(v.n) \div v.d)
           \o (IF Abs(v.n) % v.d = 0 THEN <<>>
               ELSE <<".">> \o fracChars(Abs(v.n) % v.d, v.d, 16))

RECURSIVE IntPow(_, _)
IntPow(b, k) == IF k = 0 THEN 1 ELSE b * IntPow(b, k - 1)

\* math.Pow for an integral exponent.
Pow(b, x) ==
  CASE x.d = 1 /\ x.n >= 0 -> FloatV(IntPow(b.n, x.n), IntPow(b.d, x.n))
    [] x.d = 1 /\ x.n < 0 -> FloatV(IntPow(b.d, -x.n), IntPow(b.n, -x.n))

OperatorEvalUncheckedDivisor(o, l, r) ==
  IF l.t = "int" \/ r.t = "int"
  THEN Panic("log.Fatal: evaluated parser output contained an int")
  ELSE IF l.t = "float" /\ r.t = "float"
  THEN CASE o = "*" -> Ok(FloatV(l.n * r.n, l.d * r.d))
         [] o = "/" -> Ok(FloatV(l.n * r.d, l.d * r.n))
         [] o = "+" -> Ok(FloatV(l.n * r.d + r.n * l.d, l.d * r.d))
         [] o = "-" -> Ok(FloatV(l.n * r.d - r.n * l.d, l.d * r.d))
         [] OTHER -> Err("unsupported float operator")
  ELSE IF l.t = "string" \/ r.t = "string"
  THEN IF o = "+" THEN Ok(StringV(Sprint(l) \o Sprint(r)))
       ELSE Err("unsupported string operator")
  ELSE Err("unsupported type")

\* Operator.eval
OperatorEval(o, l, r) ==
  IF l.t = "int" \/ r.t = "int"
  THEN Panic("log.Fatal: evaluated parser output contained an int")
  ELSE IF l.t = "float" /\ r.t = "float"
  THEN CASE o = "*" -> Ok(FloatV(l.n * r.n, l.d * r.d))
         [] o = "/" -> IF r.n = 0 /\ r.d # 0 THEN Err("division by 0")
                       ELSE Ok(FloatV(l.n * r.d, l.d * r.n))
         [] o = "+" -> Ok(FloatV(l.n * r.d + r.n * l.d, l.d * r.d))
         [] o = "-" -> Ok(FloatV(l.n * r.d - r.n * l.d, l.d * r.d))
         [] OTHER -> Err("unsupported float operator")
  ELSE IF l.t = "string" \/ r.t = "string"
  THEN IF o = "+" THEN Ok(StringV(Sprint(l) \o Sprint(r)))
       ELSE Err("unsupported string operator")
  ELSE Err("unsupported type")

RECURSIVE evalExpression(_, _), evalOpTerms(_, _, _, _), evalTerm(_, _)
RECURSIVE evalOpFactors(_, _, _, _), evalFactor(_, _), evalValue(_, _)
RECURSIVE evalFunction(_, _), evalArgs(_, _, _, _)

argsNext(args, i, acc, ctx, argEval) ==
  IF argEval.st # "ok" THEN [st |-> argEval.st, args |-> <<>>, res |-> argEval]
  ELSE evalArgs(args, i + 1, Append(acc, argEval.v), ctx)

\* the argument loop of Function.eval
evalArgs(args, i, acc, ctx) ==
  IF i > Len(args) THEN [st |-> "ok", args |-> acc, res |-> Ok(NilV)]
  ELSE argsNext(args, i, acc, ctx, evalExpression(args[i], ctx))

\* Function.eval: an int result becomes a float
functionResult(result) ==
  IF result.st # "ok" THEN result
  ELSE IF result.v.t = "int" THEN Ok(FloatV(result.v.n, 1))
  ELSE result

functionCall(f, a) ==
  IF a.st # "ok" THEN a.res ELSE functionResult(LibraryCall(f.Name, a.args))

\* Function.eval, with Library.Call as the caller
evalFunction(f, ctx) == functionCall(f, evalArgs(f.Args, 1, <<>>, ctx))

\* An int of the context handed on as it is.
variableValueUnwidened(value) ==
  CASE value.t = "int" -> Ok(value)
    [] value.t = "float" -> Ok(value)
    [] value.t = "string" -> Ok(value)
    [] OTHER -> Err("could not cast variable to float or string")

\* Value.eval, a variable: an int becomes a float
variableValue(value) ==
  CASE value.t = "int" -> Ok(FloatV(value.n, 1))
    [] value.t = "float" -> Ok(value)
    [] value.t = "string" -> Ok(value)
    [] OTHER -> Err("could not cast variable to float or string")

\* Value.eval
evalValue(v, ctx) ==
  CASE v.kind = "Number" -> Ok(v.Number)
    [] v.kind = "StrLiteral" -> Ok(StringV(v.StrLiteral))
    [] v.kind = "Variable" ->
         IF v.Variable \notin DOMAIN ctx THEN Err("no such variable")
         ELSE variableValue(ctx[v.Variable])
    [] v.kind = "Function" -> evalFunction(v, ctx)
    [] v.kind = "Subexpression" -> evalExpression(v.Subexpression, ctx)
    [] OTHER -> Ok(NilV)

\* Factor.eval, the exponent: the type assertions b.(float64) and
\* exponentEval.(float64) panic on any other type.
factorPow(b, exponentEval) ==
  IF exponentEval.st # "ok" THEN exponentEval
  ELSE IF b.v.t # "float" \/ exponentEval.v.t # "float"
  THEN Panic("interface conversion: interface {} is not float64")
  ELSE Ok(Pow(b.v, exponentEval.v))

factorExponentEval(f, ctx, b) ==
  IF b.st # "ok" THEN b
  ELSE IF f.Exponent # NoExponent THEN factorPow(b, evalValue(f.Exponent, ctx))
  ELSE b

\* Factor.eval
evalFactor(f, ctx) == factorExponentEval(f, ctx, evalValue(f.Base, ctx))

opFactorsNext(right, i, ctx, n) ==
  IF n.st # "ok" THEN n ELSE evalOpFactors(n.v, right, i + 1, ctx)

opFactorApply(n, right, i, ctx, rFactorEval) ==
  IF rFactorEval.st # "ok" THEN rFactorEval
  ELSE opFactorsNext(right, i, ctx, OperatorEval(right[i].Operator, n, rFactorEval.v))

\* the loop of Term.eval
evalOpFactors(n, right, i, ctx) ==
  IF i > Len(right) THEN Ok(n)
  ELSE opFactorApply(n, right, i, ctx, evalFactor(right[i].Factor, ctx))

termLoop(t, ctx, n) ==
  IF n.st # "ok" THEN n ELSE evalOpFactors(n.v, t.Right, 1, ctx)

\* Term.eval
evalTerm(t, ctx) == termLoop(t, ctx, evalFactor(t.Left, ctx))

opTermsNext(right, i, ctx, l) ==
  IF l.st # "ok" THEN l ELSE evalOpTerms(l.v, right, i + 1, ctx)

opTermApply(l, right, i, ctx, rEval) ==
  IF rEval.st # "ok" THEN rEval
  ELSE opTermsNext(right, i, ctx, OperatorEval(right[i].Operator, l, rEval.v))

\* the loop of Expression.eval
evalOpTerms(l, right, i, ctx) ==
  IF i > Len(right) THEN Ok(l)
  ELSE opTermApply(l, right, i, ctx, evalTerm(right[i].Term, ctx))

expressionLoop(e, ctx, l) ==
  IF l.st # "ok" THEN l ELSE evalOpTerms(l.v, e.Right, 1, ctx)

\* Expression.eval
evalExpression(e, ctx) == expressionLoop(e, ctx, evalTerm(e.Left, ctx))

\* oparse.Eval
Eval(expression, ctx) == evalExpression(expression, ctx)

(***************************************************************************)
(* The configuration of the engine: the vendor table, the OIDs and the     *)
(* transformations.                                                        *)
(***************************************************************************)
\* pb.VendorOids: the vendor root and the enterprise number of each vendor.
vendorInfo ==
  [VendorRoot |-> <<"1", ".", "4">>,
   Vendors |-> [cisco |-> <<"9">>, aruba |-> <<"1", "4">>, snmpresearch |-> <<"9", "9">>]]

\* The vendors a request may name; "invalid" is not in the vendor table.
VendorNames == {"cisco", "aruba", "snmpresearch", "invalid"}

TargetNames == {"target1", "target2"}

OidCisco == <<"1", ".", "4", ".", "9", ".", "1">>

OidCiscoRoot == <<"1", ".", "4", ".", "9">>

OidAruba == <<"1", ".", "4", ".", "1", "4", ".", "2">>

OidResearch == <<"1", ".", "4", ".", "9", "9", ".", "1">>

OidStandard == <<"1", ".", "2", ".", "1">>

OidPool == {OidCisco, OidCiscoRoot, OidAruba, OidResearch, OidStandard}

NocPath(bind, oids, samples) == [Bind |-> bind, Oids |-> oids, Samples |-> samples]

Transformation(bind, expressions, nocPaths) ==
  [Bind |-> bind, Expressions |-> expressions, NocPaths |-> nocPaths]

\* The alternatives the rule "gen" is drawn from.
AltUnparseable == <<TNum(1), TP("+")>>
AltMissingFunction == <<TId("int"), TP("("), TId("leaf_std"), TP(")")>>
AltCiscoLeaf == <<TId("to_int"), TP("("), TId("leaf_cisco"), TP(")")>>
AltStandardLeaf == <<TId("leaf_std"), TP("+"), TStr(<<"!">>)>>
AltDivisionByZero == <<TNum(1), TP("/"), TNum(0)>>
AltLibraryError == <<TId("to_int"), TP("("), TStr(<<"x">>), TP(")")>>
AltSubRule == <<TId("up_time"), TP("+"), TNum(1)>>
AltFailingSubRule == <<TId("cpu_name")>>
AltUndefined == <<TId("nosuch")>>
AltLiteral == <<TNum(2)>>
AltSelf == <<TId("gen")>>

AltPool == {AltUnparseable, AltMissingFunction, AltCiscoLeaf, AltStandardLeaf,
            AltDivisionByZero, AltLibraryError, AltSubRule, AltFailingSubRule,
            AltUndefined, AltLiteral, AltSelf}

GenExpressions == UNION {[1..k -> AltPool] : k \in 1..MaxAlts}

\* pb.Transformations: the rules of the configuration file.
TransformationList(genExpressions) ==
  << Transformation("up_time",
       << <<TId("to_int"), TP("("), TId("up_100"), TP(")"), TP("/"), TNum(100)>> >>,
       << NocPath("up_100", <<OidStandard>>, << <<"2", "0", "0">> >>) >>),
     Transformation("cpu_name",
       << <<TId("cpu_name_aruba_oid")>> >>,
       << NocPath("cpu_name_aruba_oid", <<OidAruba>>, << <<"C", "P", "U">> >>),
          NocPath("", <<OidStandard>>, <<>>) >>),
     Transformation("boot_time",
       << <<TId("to_int"), TP("("), TId("time_aruba"), TP(")"), TP("-"), TId("up_time")>>,
          <<TId("to_int"), TP("("), TId("time_cisco"), TP(")"), TP("-"), TId("up_time")>> >>,
       << NocPath("time_aruba", <<OidAruba>>, << <<"5", "0">> >>),
          NocPath("time_cisco", <<OidCisco, OidResearch>>, << <<"6", "0">> >>) >>),
     Transformation("ping", << <<TId("pong")>> >>, <<>>),
     Transformation("pong", << <<TId("ping"), TP("+"), TNum(1)>>, <<TNum(3)>> >>, <<>>),
     Transformation("shadow",
       << <<TId("up_time")>> >>,
       << NocPath("up_time", <<OidCisco, OidStandard>>, <<>>) >>),
     Transformation("mismatch",
       << <<TStr(<<"a">>), TP("*"), TNum(2)>>, <<TNum(8)>> >>, <<>>),
     Transformation("arity",
       << <<TId("to_int"), TP("("), TP(")")>>, <<TNum(9)>> >>, <<>>),
     Transformation("three",
       << <<TNum(1), TP("+")>>, <<TNum(1), TP("/"), TP("("), TNum(1), TP("-"), TNum(1), TP(")")>>,
          <<TNum(2)>> >>, <<>>),
     Transformation("twice",
       << <<TId("up_time"), TP("+"), TId("to_int"), TP("("), TId("leaf_std"), TP(")"),
            TP("+"), TId("up_time"), TP("+"), TId("to_int"), TP("("), TId("leaf_std"), TP(")")>> >>,
       << NocPath("leaf_std", <<OidStandard>>, << <<"3">> >>) >>),
     Transformation("", <<AltLiteral>>, <<>>),
     Transformation("power",
       << <<TId("leaf_std"), TP("^"), TNum(2)>>, <<TNum(1)>> >>,
       << NocPath("leaf_std", <<OidStandard>>, << <<"3">> >>) >>),
     Transformation("gen", genExpressions,
       << NocPath("leaf_cisco", <<OidCisco>>, << <<"7">> >>),
          NocPath("leaf_std", <<OidStandard>>, << <<"3">> >>) >>) >>

FixedNames == {"up_time", "cpu_name", "boot_time", "ping", "pong", "shadow",
               "mismatch", "arity", "three", "twice", "power", ""}

\* makeTransformationMap: the rules keyed by their identifier; a second rule
\* of the same identifier is an error.
makeTransformationMap(list) ==
  IF \E i, j \in 1..Len(list) : i < j /\ list[i].Bind = list[j].Bind
  THEN [ok |-> FALSE, map |-> <<>>]
  ELSE [ok |-> TRUE,
        map |-> [name \in {list[i].Bind : i \in 1..Len(list)} |->
                   list[CHOOSE i \in 1..Len(list) : list[i].Bind = name]]]

(***************************************************************************)
(* The vendor filter.                                                      *)
(***************************************************************************)
RECURSIVE canResolveFrom(_, _, _)
canResolveFrom(oids, i, vendor) ==
  IF i > Len(oids) THEN FALSE
  ELSE IF ~HasPrefix(oids[i], vendorInfo.VendorRoot) THEN TRUE
  ELSE IF vendor \notin DOMAIN vendorInfo.Vendors THEN FALSE
  ELSE IF HasPrefix(oids[i], vendorInfo.VendorRoot \o <<".">> \o vendorInfo.Vendors[vendor])
  THEN TRUE
  ELSE canResolveFrom(oids, i + 1, vendor)

\* Orismologer.canResolve
canResolve(nocPath, vendor) == canResolveFrom(nocPath.Oids, 1, vendor)

(***************************************************************************)
(* Paths of the OpenConfig tree (package octree): character strings with   *)
(* the separator "/".                                                      *)
(***************************************************************************)
pathSep == "/"

RootName == <<"r", "o", "o", "t">>

HasSuffix(s, suffix) ==
  /\ Len(suffix) <= Len(s)
  /\ SubSeq(s, Len(s) - Len(suffix) + 1, Len(s)) = suffix

TrimSuffix(s, suffix) ==
  IF HasSuffix(s, suffix) THEN SubSeq(s, 1, Len(s) - Len(suffix)) ELSE s

\* strings.Contains
StringsContains(s, substr) ==
  \E i \in 1..(Len(s) - Len(substr) + 1) : SubSeq(s, i, i + Len(substr) - 1) = substr

\* strings.Split(s, sep) for a separator of one character: the empty
\* string splits into one empty segment.
RECURSIVE SplitFrom(_, _, _, _)
SplitFrom(s, sep, i, segment) ==
  IF i > Len(s) THEN <<segment>>
  ELSE IF s[i] = sep THEN <<segment>> \o SplitFrom(s, sep, i + 1, <<>>)
  ELSE SplitFrom(s, sep, i + 1, Append(segment, s[i]))

Split(s, sep) == SplitFrom(s, sep, 1, <<>>)

PathOk(path) == [ok |-> TRUE, path |-> path]

PathErr == [ok |-> FALSE, path |-> <<>>]

\* Every path taken to start at the root.
rootPrefixedAlways(path) ==
  IF HasPrefix(path, <<pathSep>>) THEN PathOk(RootName \o path)
  ELSE PathOk(RootName \o <<pathSep>> \o path)

rootPrefixed(path) ==
  IF HasPrefix(path, <<pathSep>>) THEN PathOk(RootName \o path) ELSE PathOk(path)

\* A normalizePath that does not trim a path that starts at the root.
normalizePathUntrimmedRoot(path) ==
  IF path = <<pathSep>> THEN PathOk(RootName)
  ELSE IF StringsContains(path, <<pathSep, pathSep>>) THEN PathErr
  ELSE IF HasPrefix(path, <<pathSep>>) THEN PathOk(RootName \o path)
  ELSE PathOk(TrimSuffix(path, <<pathSep>>))

\* normalizePath
normalizePath(path) ==
  IF path = <<pathSep>> THEN PathOk(RootName)
  ELSE IF StringsContains(path, <<pathSep, pathSep>>) THEN PathErr
  ELSE rootPrefixed(TrimSuffix(path, <<pathSep>>))

expanded(normalized) ==
  IF ~normalized.ok THEN [ok |-> FALSE, segments |-> <<>>]
  ELSE [ok |-> TRUE, segments |-> Split(normalized.path, pathSep)]

\* expandPath
expandPath(path) == expanded(normalizePath(path))

(***************************************************************************)
(* The graph of the tree (AdjList) and the tree (OcTree).  The weights of  *)
(* the edges, all 1, are left out: nothing of the tree reads them.         *)
(***************************************************************************)
NewAdjList == [nodes |-> <<>>, edges |-> [n \in {} |-> <<>>]]

\* AdjList.AddNode
AddNode(g, n) ==
  IF n \in DOMAIN g.edges THEN g
  ELSE [nodes |-> Append(g.nodes, n),
        edges |-> [x \in DOMAIN g.edges \cup {n} |-> IF x = n THEN <<>> ELSE g.edges[x]]]

\* An edge appended without the search for it.
appendEdgeUnchecked(g, a, z) == [g EXCEPT !.edges[a] = Append(g.edges[a], z)]

appendEdge(g, a, z) ==
  IF \E i \in 1..Len(g.edges[a]) : g.edges[a][i] = z THEN g
  ELSE [g EXCEPT !.edges[a] = Append(g.edges[a], z)]

\* The edge added without its far end becoming a node.
AddEdgeWithoutNode(g, a, z) == appendEdge(AddNode(g, a), a, z)

\* AdjList.AddEdge and AdjList.AddWeightedEdge
AddEdge(g, a, z) == appendEdge(AddNode(AddNode(g, a), z), a, z)

\* AdjList.Neighbors: the nil slice of a name that is no node is empty.
Neighbors(g, a) == IF a \in DOMAIN g.edges THEN g.edges[a] ELSE <<>>

\* pb.OpenConfigNode
OpenConfigNode(subpath, bind, children) ==
  [Subpath |-> subpath, Bind |-> bind, Children |-> children]

\* The tree NewTree starts from: the graph with the root, no payloads.
EmptyTree == [graph |-> AddNode(NewAdjList, RootName), payloads |-> [n \in {} |-> ""]]

isNode(t, normalized) == normalized.ok /\ normalized.path \in DOMAIN t.graph.edges

\* OcTree.IsValid
IsValid(t, path) == isNode(t, normalizePath(path))

\* OcTree.addChild
addChild(t, parent, child) ==
  IF ~IsValid(t, parent) THEN [ok |-> FALSE, t |-> t]
  ELSE [ok |-> TRUE, t |-> [t EXCEPT !.graph = AddEdge(t.graph, parent, child)]]

\* OcTree.children
children(t, parent) ==
  IF ~IsValid(t, parent) THEN [ok |-> FALSE, children |-> <<>>]
  ELSE [ok |-> TRUE, children |-> Neighbors(t.graph, parent)]

\* OcTree.getPayload
getPayload(t, node) ==
  IF ~IsValid(t, node) THEN [ok |-> FALSE, e |-> "no such node in tree", Bind |-> ""]
  ELSE IF node \in DOMAIN t.payloads
  THEN [ok |-> TRUE, e |-> "", Bind |-> t.payloads[node]]
  ELSE [ok |-> FALSE, e |-> "payload missing", Bind |-> ""]

\* OcTree.setPayload; of the payload the tree keeps, only the binding is read.
setPayload(t, node, payload) ==
  IF ~IsValid(t, node) THEN [ok |-> FALSE, t |-> t]
  ELSE [ok |-> TRUE,
        t |-> [t EXCEPT !.payloads =
                 [x \in DOMAIN t.payloads \cup {node} |->
                    IF x = node THEN payload.Bind ELSE t.payloads[x]]]]

identifierOf(t, normalized) ==
  IF ~normalized.ok THEN [ok |-> FALSE, e |-> "invalid path", Bind |-> ""]
  ELSE getPayload(t, normalized.path)

\* The payload looked up under the path as given.
GetTransformationIdentifierAsGiven(t, path) == getPayload(t, path)

\* OcTree.GetTransformationIdentifier
GetTransformationIdentifier(t, path) == identifierOf(t, normalizePath(path))

RECURSIVE buildPath(_, _, _, _), buildPathFlat(_, _, _, _)
\* Every node of the subpath made a child of the parent of the first.
buildPathFlat(t, parent, subpath, i) ==
  IF i > Len(subpath) THEN [t |-> t, fullPath |-> parent]
  ELSE IF i = Len(subpath)
  THEN [t |-> addChild(t, parent, parent \o <<pathSep>> \o subpath[i]).t,
        fullPath |-> parent \o <<pathSep>> \o subpath[i]]
  ELSE buildPathFlat(addChild(t, parent, parent \o <<pathSep>> \o subpath[i]).t,
                     parent, subpath, i + 1)

\* The loop of build that creates each node of the subpath; the error of
\* addChild is dropped.
buildPath(t, parent, subpath, i) ==
  IF i > Len(subpath) THEN [t |-> t, fullPath |-> parent]
  ELSE buildPath(addChild(t, parent, parent \o <<pathSep>> \o subpath[i]).t,
                 parent \o <<pathSep>> \o subpath[i], subpath, i + 1)

built(b, current) ==
  [ok |-> setPayload(b.t, b.fullPath, current).ok,
   t |-> setPayload(b.t, b.fullPath, current).t,
   fullPath |-> b.fullPath]

\* The subpath built below the parent given, also when it starts at the root.
buildSubpathUnderParent(t, parent, current, subpath) ==
  IF ~subpath.ok THEN [ok |-> FALSE, t |-> t, fullPath |-> parent]
  ELSE built(buildPath(t, parent, subpath.segments, 1), current)

buildSubpath(t, parent, current, subpath) ==
  IF ~subpath.ok THEN [ok |-> FALSE, t |-> t, fullPath |-> parent]
  ELSE IF Len(subpath.segments) > 0 /\ subpath.segments[1] = RootName
  THEN built(buildPath(t, RootName, Tail(subpath.segments), 1), current)
  ELSE built(buildPath(t, parent, subpath.segments, 1), current)

\* OcTree.build up to the payload of the node: the nodes of the subpath and
\* the payload of the last one.
buildNode(t, parent, current) ==
  buildSubpath(t, parent, current, expandPath(current.Subpath))

RECURSIVE build(_, _, _), buildChildren(_, _, _, _)
builtChild(b, parent, nodes, i) ==
  IF ~b.ok THEN b ELSE buildChildren(b.t, parent, nodes, i + 1)

\* The loops over the children in build and over the nodes in NewTree.
buildChildren(t, parent, nodes, i) ==
  IF i > Len(nodes) THEN [ok |-> TRUE, t |-> t]
  ELSE builtChild(build(t, parent, nodes[i]), parent, nodes, i)

builtNode(b, current) ==
  IF ~b.ok THEN [ok |-> FALSE, t |-> b.t]
  ELSE buildChildren(b.t, b.fullPath, current.Children, 1)

\* OcTree.build
build(t, parent, current) == builtNode(buildNode(t, parent, current), current)

\* NewTree
NewTree(mappings) == buildChildren(EmptyTree, RootName, mappings, 1)

\* joinPath
RECURSIVE joinPath(_)
joinPath(path) ==
  IF path = <<>> THEN <<>>
  ELSE IF Len(path) = 1 THEN path[1]
  ELSE path[1] \o <<pathSep>> \o joinPath(Tail(path))

(***************************************************************************)
(* The ways to write the path of a node: from the root as "/a/b" or as     *)
(* "root/a/b", or relative as "a/b", each with or without a trailing       *)
(* separator.                                                              *)
(***************************************************************************)
Segments(chars) == [i \in 1..Len(chars) |-> <<chars[i]>>]

Spelled(base, trailing) == IF trailing THEN base \o <<pathSep>> ELSE base

Spell(segments, style, trailing) ==
  CASE style = "absolute" -> Spelled(<<pathSep>> \o joinPath(segments), trailing)
    [] style = "rooted" -> Spelled(joinPath(<<RootName>> \o segments), trailing)
    [] style = "relative" -> Spelled(joinPath(segments), trailing)

Absolute(chars) == Spell(Segments(chars), "absolute", FALSE)

Relative(chars) == Spell(Segments(chars), "relative", FALSE)

(***************************************************************************)
(* The mappings file of the engine: the paths of the rules.  "/s" and      *)
(* "/s/n" are declared without a binding, "/s/k" is only a step of the     *)
(* subpath "k/b", "/s/x" is bound to a rule that does not exist.           *)
(***************************************************************************)
MappingsList ==
  << OpenConfigNode(Absolute(<<"s">>), "",
       << OpenConfigNode(Relative(<<"u">>), "up_time", <<>>),
          OpenConfigNode(Relative(<<"k", "b">>), "boot_time", <<>>),
          OpenConfigNode(Relative(<<"c">>), "cpu_name", <<>>),
          OpenConfigNode(Relative(<<"n">>), "", <<>>),
          OpenConfigNode(Relative(<<"x">>), "absent", <<>>) >>),
     OpenConfigNode(Absolute(<<"t">>), "",
       << OpenConfigNode(Relative(<<"p">>), "ping", <<>>),
          OpenConfigNode(Relative(<<"q">>), "pong", <<>>),
          OpenConfigNode(Relative(<<"h">>), "shadow", <<>>),
          OpenConfigNode(Relative(<<"m">>), "mismatch", <<>>),
          OpenConfigNode(Relative(<<"a">>), "arity", <<>>),
          OpenConfigNode(Relative(<<"e">>), "three", <<>>),
          OpenConfigNode(Relative(<<"w">>), "power", <<>>),
          OpenConfigNode(Relative(<<"d">>), "twice", <<>>),
          OpenConfigNode(Relative(<<"g">>), "gen", <<>>) >>) >>

\* The paths a request may name: one for each rule, a second spelling of the
\* path of "gen", and paths without a rule.
BoundPaths ==
  {Absolute(<<"s", "u">>), Absolute(<<"s", "k", "b">>), Absolute(<<"s", "c">>),
   Absolute(<<"t", "p">>), Absolute(<<"t", "q">>), Absolute(<<"t", "h">>),
   Absolute(<<"t", "m">>), Absolute(<<"t", "a">>), Absolute(<<"t", "e">>),
   Absolute(<<"t", "w">>), Absolute(<<"t", "d">>), Absolute(<<"t", "g">>),
   Spell(Segments(<<"t", "g">>), "rooted", TRUE)}

\* Not the path of a node, or of a node that has no rule.
UnboundPaths ==
  {Absolute(<<"s">>), Absolute(<<"s", "k">>), Absolute(<<"s", "n">>),
   Absolute(<<"s", "x">>), Absolute(<<"z">>), Relative(<<"t", "g">>),
   Spell(<<<<"t">>, <<>>, <<"g">>>>, "absolute", FALSE)}

RequestPaths == BoundPaths \cup UnboundPaths

(***************************************************************************)
(* The state: the engine (Orismologer), the request being evaluated, the   *)
(* call stack of Orismologer.eval, and a log of what the evaluation did.   *)
(***************************************************************************)
VARIABLES
  transformations,  \* Orismologer.transformations
  request,          \* the path, target and vendor given to Eval
  stack,            \* the active calls of Orismologer.eval, innermost last
  pc,               \* "idle", "running", "done" or "crashed"
  result,           \* what the outermost call returned (or why the process died)
  calls,            \* the number of calls of Orismologer.eval so far
  log,              \* the events of the evaluation
  crNocPath,        \* the NocPath given to a direct call of canResolve
  crVendor,         \* the vendor given to a direct call of canResolve
  crResult,         \* "pending", or the result of that call
  mappings,         \* Orismologer.mappings: the OcTree
  todo,             \* the calls of OcTree.build still to make, next first
  lastBuild,        \* the last call of OcTree.build made, with the tree before it
  treeStatus,       \* "building", "built" or "failed"
  query,            \* the arguments of a direct call of a function
  answer            \* what that call returned

vars == <<transformations, request, stack, pc, result, calls, log,
          crNocPath, crVendor, crResult,
          mappings, todo, lastBuild, treeStatus, query, answer>>

engineVars == <<transformations, request, stack, pc, result, calls, log>>

crVars == <<crNocPath, crVendor, crResult>>

treeVars == <<mappings, todo, lastBuild, treeStatus>>

askVars == <<query, answer>>

NoOutcome == [st |-> "none", v |-> NilV, e |-> "", unresolvable |-> FALSE]

EmptyContext == [x \in {} |-> NilV]

NoCaller == [id |-> 0, Bind |-> "", alt |-> 0, vi |-> 0]

\* A call of Orismologer.eval: `alt` is the index of the expression the loop
\* is at, `vi` the index of the variable evalVariables is at (0 before the
\* expression is parsed), `values` the oparse.Context built so far; `caller`
\* is the call that evaluates this one as a variable of its expression `alt`.
Frame(id, caller, bind, target, vendor) ==
  [id |-> id, caller |-> caller, Bind |-> bind, target |-> target, vendor |-> vendor,
   alt |-> 1, vi |-> 0, values |-> EmptyContext]

Event(ev, frame, name, oids, out) ==
  [ev |-> ev, id |-> frame.id, caller |-> frame.caller, Bind |-> frame.Bind,
   alt |-> frame.alt, vi |-> frame.vi, name |-> name, target |-> frame.target, vendor |-> frame.vendor,
   oids |-> oids, out |-> out]

Top == stack[Len(stack)]

Expressions(frame) == transformations[frame.Bind].Expressions

\* Orismologer.getNocPaths: the NocPaths of a transformation by identifier;
\* a NocPath without an identifier is left out.
getNocPaths(transformation) ==
  [name \in {transformation.NocPaths[i].Bind : i \in 1..Len(transformation.NocPaths)} \ {""} |->
     transformation.NocPaths[
       CHOOSE i \in 1..Len(transformation.NocPaths) :
         /\ transformation.NocPaths[i].Bind = name
         /\ \A j \in 1..Len(transformation.NocPaths) :
              transformation.NocPaths[j].Bind = name => j <= i]]

validated(p, ids) ==
  IF \E i \in 1..Len(ids.functions) : ~Contains(NewLibrary, ids.functions[i])
  THEN [ok |-> FALSE, e |-> "function is not defined", expression |-> <<>>,
        variables |-> <<>>]
  ELSE [ok |-> TRUE, e |-> "", expression |-> p.ast, variables |-> ids.variables]

parsed(p) ==
  IF ~p.ok THEN [ok |-> FALSE, e |-> "could not parse", expression |-> <<>>,
                 variables |-> <<>>]
  ELSE validated(p, Identifiers(p.ast))

\* Orismologer.parseAndValidateExpression
parseAndValidateExpression(expressionString) == parsed(Parse(expressionString))

\* The expression a call is at, parsed, with its variables.
Parsed(frame) == parseAndValidateExpression(Expressions(frame)[frame.alt])

\* The variable evalVariables is at.
Variable(frame) == Parsed(frame).variables[frame.vi]

AtVariable(frame) == frame.vi >= 1 /\ frame.vi <= Len(Parsed(frame).variables)

\* The switch with its first two cases exchanged.
variableCaseTransformationFirst(variable, nocPaths) ==
  IF variable \in DOMAIN transformations THEN "transformation"
  ELSE IF variable \in DOMAIN nocPaths THEN "nocPath"
  ELSE "undefined"

\* The switch of evalVariables: a NocPath of the transformation first, then
\* a transformation of that name.
variableCase(variable, nocPaths) ==
  IF variable \in DOMAIN nocPaths THEN "nocPath"
  ELSE IF variable \in DOMAIN transformations THEN "transformation"
  ELSE "undefined"

\* The injected nocPathResolver: the default (resolve) returns the first
\* sample or "dummy"; a resolver that talks to a device may also fail.
nocPathResolver(nocPath, target) ==
  { Ok(StringV(IF Len(nocPath.Samples) > 0 THEN nocPath.Samples[1]
               ELSE <<"d", "u", "m", "m", "y">>)),
    Err("failed to resolve NocPath") }

Unresolvable == [st |-> "err", v |-> NilV, e |-> "ignoring NocPath", unresolvable |-> TRUE]

\* handleNocPath without the check of canResolve.
handleNocPathUnfiltered(nocPath, target, vendor) ==
  {[called |-> TRUE, out |-> o] : o \in nocPathResolver(nocPath, target)}

\* Orismologer.handleNocPath: the possible outcomes, and whether the
\* resolver was invoked.
handleNocPath(nocPath, target, vendor) ==
  IF ~canResolve(nocPath, vendor)
  THEN {[called |-> FALSE, out |-> Unresolvable]}
  ELSE {[called |-> TRUE, out |-> o] : o \in nocPathResolver(nocPath, target)}

\* `continue` in the loop of eval: on to the next expression.
NextAlternative(frame) ==
  [frame EXCEPT !.alt = frame.alt + 1, !.vi = 0, !.values = EmptyContext]

\* values[variable] = value in evalVariables
Bound(frame, variable, value) ==
  [frame EXCEPT !.vi = frame.vi + 1,
                !.values = [x \in DOMAIN frame.values \cup {variable} |->
                              IF x = variable THEN value ELSE frame.values[x]]]

\* An eval that returns only the errors of oparse.Eval.
returnsAfterEvalOnlyErrors(out) == out.st = "err"

\* What eval does with the result of oparse.Eval: it returns it, be it a
\* value or an error.
returnsAfterEval(out) == TRUE

\* The caller's side of `value, err = o.eval(...)` in evalVariables.
Resumed(frame, out) ==
  IF out.st = "err" THEN NextAlternative(frame)
  ELSE Bound(frame, Variable(frame), out.v)

\* The innermost call returns `out`: to its caller in evalVariables, or to
\* the caller of the outermost eval.
Return(out, events) ==
  /\ log' = log \cup events \cup {Event("return", Top, "", <<>>, out)}
  /\ IF Len(stack) = 1
     THEN /\ stack' = <<>>
          /\ pc' = "done"
          /\ result' = out
     ELSE /\ stack' = Append(SubSeq(stack, 1, Len(stack) - 2),
                             Resumed(stack[Len(stack) - 1], out))
          /\ UNCHANGED <<pc, result>>

(***************************************************************************)
(* The actions of the engine.                                              *)
(***************************************************************************)
\* The first call of eval, for the transformation that Eval found.
Started(transformationName) ==
  /\ pc' = "running"
  /\ calls' = 1
  /\ stack' = <<Frame(1, NoCaller, transformationName, request.target, request.vendor)>>
  /\ log' = log \cup {Event("call", Frame(1, NoCaller, transformationName,
                                          request.target, request.vendor),
                            "", <<>>, NoOutcome)}
  /\ UNCHANGED result

\* Eval returns an error of its own.
Failed(e) ==
  /\ pc' = "done"
  /\ result' = Err(e)
  /\ UNCHANGED <<stack, calls, log>>

Located(identifier) ==
  IF ~identifier.ok THEN Failed("failed to identify a transformation for path")
  ELSE IF identifier.Bind \notin DOMAIN transformations
  THEN Failed("could not locate transformation")
  ELSE Started(identifier.Bind)

\* Orismologer.Eval(openConfigPath, target, vendor): the transformation of
\* the path in the tree, then eval.
CallEval ==
  /\ pc = "idle"
  /\ treeStatus = "built"
  /\ Located(GetTransformationIdentifier(mappings, request.path))
  /\ UNCHANGED <<transformations, request, crVars, treeVars, askVars>>

\* The head of the loop over the expressions: parse and validate the next
\* expression.
NextExpression ==
  /\ pc = "running" /\ Top.vi = 0
  /\ Top.alt <= Len(Expressions(Top))
  /\ stack' = [stack EXCEPT ![Len(stack)] =
                 IF Parsed(Top).ok THEN [Top EXCEPT !.vi = 1] ELSE NextAlternative(Top)]
  /\ log' = log \cup {Event("parse", Top, "", <<>>,
                            IF Parsed(Top).ok THEN Ok(NilV) ELSE Err(Parsed(Top).e))}
  /\ UNCHANGED <<transformations, request, pc, result, calls, crVars, treeVars, askVars>>

\* The loop is over: the error of eval's last line.
NoneEvaluable ==
  /\ pc = "running" /\ Top.vi = 0
  /\ Top.alt > Len(Expressions(Top))
  /\ Return(Err("none of the expressions could be evaluated"), {})
  /\ UNCHANGED <<transformations, request, calls, crVars, treeVars, askVars>>

\* evalVariables, a variable that names a NocPath: handleNocPath.
EvalNocPathVariable ==
  /\ pc = "running" /\ AtVariable(Top)
  /\ variableCase(Variable(Top), getNocPaths(transformations[Top.Bind])) = "nocPath"
  /\ \E h \in handleNocPath(getNocPaths(transformations[Top.Bind])[Variable(Top)],
                            Top.target, Top.vendor) :
       /\ stack' = [stack EXCEPT ![Len(stack)] =
                      IF h.out.st = "ok" THEN Bound(Top, Variable(Top), h.out.v)
                      ELSE NextAlternative(Top)]
       /\ log' = log \cup
            {Event(IF h.called THEN "resolve" ELSE "unresolvable", Top, Variable(Top),
                   getNocPaths(transformations[Top.Bind])[Variable(Top)].Oids, h.out)}
  /\ UNCHANGED <<transformations, request, pc, result, calls, crVars, treeVars, askVars>>

\* evalVariables, a variable that names a transformation: eval recurses.
EvalSubTransformation ==
  /\ pc = "running" /\ AtVariable(Top)
  /\ Len(stack) < StackLimit
  /\ variableCase(Variable(Top), getNocPaths(transformations[Top.Bind])) = "transformation"
  /\ stack' = Append(stack, Frame(calls + 1, [id |-> Top.id, Bind |-> Top.Bind, alt |-> Top.alt, vi |-> Top.vi],
                                  Variable(Top), Top.target, Top.vendor))
  /\ calls' = calls + 1
  /\ log' = log \cup
       {Event("call", Frame(calls + 1, [id |-> Top.id, Bind |-> Top.Bind, alt |-> Top.alt, vi |-> Top.vi],
                            Variable(Top), Top.target, Top.vendor),
              Variable(Top), <<>>, NoOutcome)}
  /\ UNCHANGED <<transformations, request, pc, result, crVars, treeVars, askVars>>

\* The recursion of eval has no bound of its own: the Go runtime ends the
\* process when the stack is exhausted.
StackOverflow ==
  /\ pc = "running" /\ AtVariable(Top)
  /\ Len(stack) >= StackLimit
  /\ variableCase(Variable(Top), getNocPaths(transformations[Top.Bind])) = "transformation"
  /\ pc' = "crashed"
  /\ result' = Panic("fatal error: stack overflow")
  /\ UNCHANGED <<transformations, request, stack, calls, log, crVars, treeVars, askVars>>

\* evalVariables, a variable that names neither.
EvalUndefinedVariable ==
  /\ pc = "running" /\ AtVariable(Top)
  /\ variableCase(Variable(Top), getNocPaths(transformations[Top.Bind])) = "undefined"
  /\ stack' = [stack EXCEPT ![Len(stack)] = NextAlternative(Top)]
  /\ log' = log \cup {Event("undefined", Top, Variable(Top), <<>>,
                            Err("NocPath or sub-transformation is undefined"))}
  /\ UNCHANGED <<transformations, request, pc, result, calls, crVars, treeVars, askVars>>

Evaluated(out) == Event("evaluated", Top, "", <<>>, out)

\* The end of an iteration of the loop, given the outcome of oparse.Eval.
AfterEval(out) ==
  IF out.st = "panic"
  THEN /\ pc' = "crashed"
       /\ result' = out
       /\ log' = log \cup {Evaluated(out)}
       /\ UNCHANGED stack
  ELSE IF returnsAfterEval(out)
  THEN Return(out, {Evaluated(out)})
  ELSE /\ stack' = [stack EXCEPT ![Len(stack)] = NextAlternative(Top)]
       /\ log' = log \cup {Evaluated(out)}
       /\ UNCHANGED <<pc, result>>

\* All variables have values: oparse.Eval, and the return of its result.
EvalExpression ==
  /\ pc = "running" /\ Top.vi >= 1 /\ Top.vi > Len(Parsed(Top).variables)
  /\ AfterEval(Eval(Parsed(Top).expression, Top.values))
  /\ UNCHANGED <<transformations, request, calls, crVars, treeVars, askVars>>

NoBuild == [ok |-> FALSE, parent |-> <<>>, node |-> OpenConfigNode(<<>>, "", <<>>),
            fullPath |-> <<>>, before |-> EmptyTree]

NoQuery == [op |-> "none"]

NoAnswer == [ok |-> FALSE]

\* No evaluation is under way.
EngineIdle ==
  /\ stack = <<>>
  /\ pc = "idle"
  /\ result = NoOutcome
  /\ calls = 0
  /\ log = {}

\* No direct call of canResolve or of another function.
NoDirectCall ==
  /\ crNocPath = NocPath("", <<>>, <<>>)
  /\ crVendor = ""
  /\ crResult = "none"
  /\ query = NoQuery
  /\ answer = NoAnswer

\* newOrismologer built the tree of the mappings.
TreeBuilt ==
  /\ mappings = NewTree(MappingsList).t
  /\ todo = <<>>
  /\ lastBuild = NoBuild
  /\ treeStatus = "built"

Init ==
  /\ \E genExpressions \in GenExpressions :
       transformations = makeTransformationMap(TransformationList(genExpressions)).map
  /\ TreeBuilt
  /\ request \in [path : RequestPaths, target : TargetNames, vendor : VendorNames]
  /\ GetTransformationIdentifier(mappings, request.path).Bind # "gen"
       => transformations["gen"].Expressions = <<AltLiteral>>
  /\ EngineIdle
  /\ NoDirectCall

Next ==
  \/ CallEval
  \/ NextExpression
  \/ NoneEvaluable
  \/ EvalNocPathVariable
  \/ EvalSubTransformation
  \/ StackOverflow
  \/ EvalUndefinedVariable
  \/ EvalExpression

Spec == Init /\ [][Next]_vars

(***************************************************************************)
(* Properties of Orismologer.eval, over the log of an evaluation.          *)
(***************************************************************************)
ExpressionCount(event) == Len(transformations[event.Bind].Expressions)

\* The outcome of an expression without variables, "none" if it has any or
\* does not parse.
closedOutcome(p) ==
  IF p.ok /\ Len(p.variables) = 0 THEN Eval(p.expression, EmptyContext) ELSE NoOutcome

ClosedOutcome(expressionString) == closedOutcome(parseAndValidateExpression(expressionString))

\* The events that tell that an expression could not be given its values:
\* it does not parse or calls an unknown function, a NocPath is not for the
\* vendor or its resolver fails, a variable is undefined.
IsPreEvaluationFailure(event) ==
  /\ event.ev \in {"parse", "resolve", "unresolvable", "undefined"}
  /\ event.out.st = "err"

\* A sub-transformation returned an error to the call `id` at expression `alt`.
IsSubTransformationFailure(event) ==
  event.ev = "return" /\ event.caller.id # 0 /\ event.out.st = "err"

\* Expression `alt` of the call `id` failed, before or at its evaluation.
FailedAt(id, alt) ==
  \E e \in log :
    \/ IsPreEvaluationFailure(e) /\ e.id = id /\ e.alt = alt
    \/ IsSubTransformationFailure(e) /\ e.caller.id = id /\ e.caller.alt = alt
    \/ e.ev = "evaluated" /\ e.out.st = "err" /\ e.id = id /\ e.alt = alt

\* The call `id` is not at expression `alt` any more and did not return
\* from it.
MovedPast(id, alt) ==
  /\ \A i \in 1..Len(stack) : stack[i].id = id => stack[i].alt > alt
  /\ \A r \in log : (r.ev = "return" /\ r.id = id) => r.alt > alt

\* C1: an expression whose evaluation fails (type mismatch, division by zero,
\* an error of a library function, a wrong number of arguments) is abandoned
\* and the next one is tried: eval does not return from a failed expression
\* that has a successor, and when the successor is an expression without
\* variables that evaluates, eval returns the successor's value.
C1_EvaluationFailureTriesNext ==
  \A e \in log :
    (e.ev = "evaluated" /\ e.out.st = "err" /\ e.alt < ExpressionCount(e)) =>
      /\ \A r \in log : (r.ev = "return" /\ r.id = e.id) => r.alt > e.alt
      /\ \A r \in log :
           (/\ r.ev = "return" /\ r.id = e.id
            /\ ClosedOutcome(transformations[e.Bind].Expressions[e.alt + 1]).st = "ok")
           => r.out = ClosedOutcome(transformations[e.Bind].Expressions[e.alt + 1])

\* C2: an expression that fails before its evaluation (parse error, unknown
\* function, NocPath not for the vendor, resolver error, failing
\* sub-transformation, undefined variable) is skipped and the next one is
\* tried, and the result of a call that skipped one is the value of the
\* first expression that does not fail: it succeeds only after every earlier
\* expression failed, and it is no error while a later expression without
\* variables evaluates.
C2_PreEvaluationFailureSkips ==
  /\ \A e \in log : IsPreEvaluationFailure(e) => MovedPast(e.id, e.alt)
  /\ \A e \in log : IsSubTransformationFailure(e) => MovedPast(e.caller.id, e.caller.alt)
  /\ \A r \in log :
       (r.ev = "return" /\ \E e \in log : IsPreEvaluationFailure(e) /\ e.id = r.id) =>
         /\ r.out.st = "ok" => \A j \in 1..(r.alt - 1) : FailedAt(r.id, j)
         /\ r.out.st = "err" =>
              \A j \in 1..ExpressionCount(r) :
                j > r.alt => ClosedOutcome(transformations[r.Bind].Expressions[j]).st # "ok"

\* C3: once an expression evaluates to a value, eval returns that value, and
\* no later expression of the transformation is parsed, has a NocPath
\* resolved or a sub-transformation evaluated.
C3_SuccessEndsTheLoop ==
  \A e \in log :
    (e.ev = "evaluated" /\ e.out.st = "ok") =>
      /\ \E r \in log : r.ev = "return" /\ r.id = e.id /\ r.alt = e.alt /\ r.out = e.out
      /\ \A i \in 1..Len(stack) : stack[i].id # e.id
      /\ \A x \in log : (x.id = e.id /\ x.ev # "call") => x.alt <= e.alt
      /\ \A x \in log : (x.ev = "call" /\ x.caller.id = e.id) => x.caller.alt <= e.alt

\* C3's case: the outermost call returned the value of an expression that is
\* not the last one of its transformation, after it evaluated a
\* sub-transformation and had a NocPath resolved for that expression.
C3_Witness ==
  /\ pc = "done" /\ result.st = "ok"
  /\ \E e \in log :
       /\ e.ev = "evaluated" /\ e.out.st = "ok" /\ e.id = 1 /\ e.alt < ExpressionCount(e)
       /\ \E c \in log : c.ev = "call" /\ c.caller.id = 1 /\ c.caller.alt = e.alt
       /\ \E x \in log : x.ev = "resolve" /\ x.id = 1 /\ x.alt = e.alt

\* C4: when every expression of a transformation fails, eval returns the
\* terminal error that none of the expressions could be evaluated, after the
\* last expression; an expression with a NocPath that is not for the vendor
\* never makes eval return the error of that NocPath.
C4_FailureIsTheTerminalError ==
  \A r \in log :
    (r.ev = "return" /\ r.out.st = "err") =>
      /\ (\A j \in 1..ExpressionCount(r) : FailedAt(r.id, j)) =>
           /\ r.out.e = "none of the expressions could be evaluated"
           /\ r.alt > ExpressionCount(r)
      /\ ~r.out.unresolvable

\* C5: the recursion is bounded: transformations that refer to each other in
\* a circle end in an error, the stack is never exhausted.
C5_RecursionIsBounded ==
  ~(pc = "crashed" /\ result = Panic("fatal error: stack overflow"))

\* C6: the resolver is invoked only for a NocPath that canResolve admits for
\* the vendor of the request, and always with the target of the request, in
\* nested calls too.
C6_ResolverOnlyForAdmissible ==
  \A e \in log :
    e.ev = "resolve" =>
      /\ canResolve(NocPath(e.name, e.oids, <<>>), request.vendor)
      /\ e.target = request.target

\* C6's case: a nested call invoked the resolver, and a NocPath that is not
\* for the vendor was met.
C6_Witness ==
  /\ \E e \in log : e.ev = "resolve" /\ e.id > 1
  /\ \E e \in log : e.ev = "unresolvable"

\* C10: a variable that names both a NocPath of the transformation and a
\* transformation is the NocPath: no call of eval is made for it.
C10_NocPathShadowsTransformation ==
  \A c \in log :
    (c.ev = "call" /\ c.caller.id # 0) =>
      c.Bind \notin DOMAIN getNocPaths(transformations[c.caller.Bind])

\* C10's case: a NocPath with the name of a transformation went to the
\* resolver, and the evaluation ended.
C10_Witness ==
  /\ pc = "done"
  /\ \E e \in log : e.ev = "resolve" /\ e.name \in DOMAIN transformations

\* The variables that a call had resolved for an expression: by the
\* resolver (or the vendor filter) or by the evaluation of a transformation.
Resolutions ==
  {[id |-> e.id, alt |-> e.alt, vi |-> e.vi, name |-> e.name] :
     e \in {x \in log : x.ev \in {"resolve", "unresolvable"}}}
  \cup
  {[id |-> e.caller.id, alt |-> e.caller.alt, vi |-> e.caller.vi, name |-> e.Bind] :
     e \in {x \in log : x.ev = "call" /\ x.caller.id # 0}}

\* C11: for one expression each variable name is resolved exactly once, also
\* when the name occurs several times in the expression, and the variables
\* are resolved in the order of Identifiers: the values a call holds are
\* those of the variables before the one it is at.
C11_EachVariableResolvedOnce ==
  /\ \A r1, r2 \in Resolutions :
       (r1.id = r2.id /\ r1.alt = r2.alt /\ r1.name = r2.name) => r1.vi = r2.vi
  /\ \A i \in 1..Len(stack) :
       stack[i].vi >= 1 =>
         DOMAIN stack[i].values =
           {Parsed(stack[i]).variables[k] : k \in 1..(stack[i].vi - 1)}

\* The path of the request is not the path of a node, or the node has no
\* binding.
RequestUnbound ==
  \/ ~GetTransformationIdentifier(mappings, request.path).ok
  \/ GetTransformationIdentifier(mappings, request.path).Bind = ""

\* C12: Eval of a path that is not a node of the tree, or is a node without
\* a binding, returns an error and neither evaluates a transformation nor
\* invokes the resolver, whatever the transformations are.
C12_UnboundPathFails ==
  (pc # "idle" /\ RequestUnbound) => (pc = "done" /\ result.st = "err" /\ log = {})

(***************************************************************************)
(* Direct calls of canResolve, for every NocPath of up to MaxOids OIDs of  *)
(* the pool and every vendor.                                              *)
(***************************************************************************)
OidLists == UNION {[1..k -> OidPool] : k \in 0..MaxOids}

InitCanResolve ==
  /\ transformations = makeTransformationMap(TransformationList(<<AltLiteral>>)).map
  /\ request = [path |-> Absolute(<<"t", "g">>), target |-> "target1", vendor |-> "cisco"]
  /\ EngineIdle
  /\ TreeBuilt
  /\ crNocPath \in {NocPath("leaf", oids, <<>>) : oids \in OidLists}
  /\ crVendor \in VendorNames
  /\ crResult = "pending"
  /\ query = NoQuery
  /\ answer = NoAnswer

CallCanResolve ==
  /\ crResult = "pending"
  /\ crResult' = IF canResolve(crNocPath, crVendor) THEN "true" ELSE "false"
  /\ UNCHANGED <<engineVars, crNocPath, crVendor, treeVars, askVars>>

SpecCanResolve == InitCanResolve /\ [][CallCanResolve]_vars

(***************************************************************************)
(* Properties of canResolve, over its direct calls.                        *)
(***************************************************************************)
IsVendor(vendor) == vendor \in DOMAIN vendorInfo.Vendors

VendorSubtree(vendor) == vendorInfo.VendorRoot \o <<".">> \o vendorInfo.Vendors[vendor]

\* The OID is the root of the vendor's subtree or lies in it.
UnderVendor(oid, vendor) ==
  /\ IsVendor(vendor)
  /\ \/ oid = VendorSubtree(vendor)
     \/ HasPrefix(oid, VendorSubtree(vendor) \o <<".">>)

\* The OID lies outside the subtree of the vendors.
OutsideVendorRoot(oid) == ~HasPrefix(oid, vendorInfo.VendorRoot)

Oids == crNocPath.Oids

\* C7: a NocPath whose OIDs all lie in one vendor's subtree is admitted for
\* that vendor and for no other vendor, known or not; a NocPath with an OID
\* outside the vendor root is admitted for every vendor; a NocPath with OIDs
\* of several vendors is admitted for each of them.
C7_VendorSubtreeAdmission ==
  crResult # "pending" =>
    /\ \A v \in DOMAIN vendorInfo.Vendors :
         (Len(Oids) > 0 /\ \A i \in 1..Len(Oids) : UnderVendor(Oids[i], v)) =>
           crResult = (IF crVendor = v THEN "true" ELSE "false")
    /\ (\E i \in 1..Len(Oids) : OutsideVendorRoot(Oids[i])) => crResult = "true"
    /\ (\E i \in 1..Len(Oids) : UnderVendor(Oids[i], crVendor)) => crResult = "true"

\* C8: canResolve is true exactly when some OID of the NocPath does not start
\* with the vendor root or starts with the root, a dot and the vendor's
\* sub-identifier, wherever in the list that OID is; for an unknown vendor an
\* OID under the vendor root is passed over and the next one is examined.
C8_SomeOidAdmits ==
  crResult # "pending" =>
    (crResult = "true" <=>
       \E i \in 1..Len(Oids) :
         \/ ~HasPrefix(Oids[i], vendorInfo.VendorRoot)
         \/ IsVendor(crVendor) /\ HasPrefix(Oids[i], VendorSubtree(crVendor)))

\* C9: an OID under the vendor root admits only when it is the vendor's
\* subtree root or continues it with a dot: sub-identifier 9 does not admit
\* an OID under sub-identifier 99.
C9_SubIdentifierBoundary ==
  crResult = "true" =>
    \E i \in 1..Len(Oids) : OutsideVendorRoot(Oids[i]) \/ UnderVendor(Oids[i], crVendor)

(***************************************************************************)
(* The build of a tree from a mappings file of up to MaxNodes declarations *)
(* at its top, one call of OcTree.build at a time, and then lookups in it. *)
(***************************************************************************)
PathA == <<"a">>
PathB == <<"b">>
PathC == <<"c">>

\* "/a" without a binding; a subpath of two segments, then its first
\* segment declared, then a child without a binding.
DeclFamily ==
  OpenConfigNode(Absolute(<<"a">>), "",
    << OpenConfigNode(Relative(<<"b", "c">>), "t_c", <<>>),
       OpenConfigNode(Relative(<<"b">>), "t_b", <<>>),
       OpenConfigNode(Relative(<<"c">>), "", <<>>) >>)

\* A relative subpath of three segments at the top.
DeclDeep == OpenConfigNode(Relative(<<"a", "b", "c">>), "t_abc", <<>>)

\* "root/a/" with a child whose subpath starts at the root.
DeclAbsoluteChild ==
  OpenConfigNode(Spell(Segments(<<"a">>), "rooted", TRUE), "t_a",
    << OpenConfigNode(Absolute(<<"c">>), "t_e", <<>>),
       OpenConfigNode(Relative(<<"b">>), "t_b2", <<>>) >>)

\* A subpath that is not a path.
DeclInvalid == OpenConfigNode(Spell(<<PathA, <<>>, PathB>>, "relative", FALSE), "t_x", <<>>)

\* The same child declared twice, with another between.
DeclTwice ==
  OpenConfigNode(Relative(<<"c">>), "t_d",
    << OpenConfigNode(Relative(<<"b">>), "t_1", <<>>),
       OpenConfigNode(Relative(<<"a">>), "", <<>>),
       OpenConfigNode(Relative(<<"b">>), "t_2", <<>>) >>)

\* The root itself, with a child.
DeclRoot ==
  OpenConfigNode(<<pathSep>>, "t_r", << OpenConfigNode(Relative(<<"b">>), "t_rb", <<>>) >>)

DeclPool == {DeclFamily, DeclDeep, DeclAbsoluteChild, DeclInvalid, DeclTwice, DeclRoot}

Forests == UNION {[1..k -> DeclPool] : k \in 1..MaxNodes}

SegmentLists == UNION {[1..k -> {PathA, PathB, PathC}] : k \in 0..MaxSegments}

\* The paths asked of the tree, by their segments and their spelling.
Queries ==
  {q \in [segments : SegmentLists, style : {"absolute", "rooted", "relative"},
          trailing : BOOLEAN] :
     ~(q.style = "relative" /\ q.segments = <<>>)}

\* The calls of build that the loop over `nodes` makes.
Pending(parent, nodes) == [i \in 1..Len(nodes) |-> [parent |-> parent, node |-> nodes[i]]]

InitTree ==
  /\ transformations = makeTransformationMap(TransformationList(<<AltLiteral>>)).map
  /\ request = [path |-> Absolute(<<"t", "g">>), target |-> "target1", vendor |-> "cisco"]
  /\ EngineIdle
  /\ NoDirectCall
  /\ mappings = EmptyTree
  /\ \E forest \in Forests : todo = Pending(RootName, forest)
  /\ lastBuild = NoBuild
  /\ treeStatus = "building"

afterBuild(b, call) ==
  /\ mappings' = b.t
  /\ lastBuild' = [ok |-> b.ok, parent |-> call.parent, node |-> call.node,
                   fullPath |-> b.fullPath, before |-> mappings]
  /\ IF ~b.ok
     THEN todo' = <<>> /\ treeStatus' = "failed"
     ELSE /\ todo' = Pending(b.fullPath, call.node.Children) \o Tail(todo)
          /\ treeStatus' = IF Pending(b.fullPath, call.node.Children) \o Tail(todo) = <<>>
                           THEN "built" ELSE "building"

\* One call of OcTree.build, up to its calls for the children, which are
\* the next to be made.
Build ==
  /\ treeStatus = "building"
  /\ todo # <<>>
  /\ afterBuild(buildNode(mappings, Head(todo).parent, Head(todo).node), Head(todo))
  /\ UNCHANGED <<engineVars, crVars, askVars>>

\* GetTransformationIdentifier of some spelling of some path.
AskTransformationIdentifier ==
  /\ treeStatus = "built"
  /\ query = NoQuery
  /\ \E q \in Queries :
       /\ query' = [op |-> "GetTransformationIdentifier", segments |-> q.segments,
                    style |-> q.style, trailing |-> q.trailing]
       /\ answer' = GetTransformationIdentifier(mappings,
                                                Spell(q.segments, q.style, q.trailing))
  /\ UNCHANGED <<engineVars, crVars, treeVars>>

childrenOf(t, current) ==
  IF ~current.ok THEN [ok |-> FALSE, children |-> <<>>] ELSE children(t, current.path)

\* children of some spelling of some path, as _printTree asks for them: of
\* the normalized path.
AskChildren ==
  /\ treeStatus = "built"
  /\ query = NoQuery
  /\ \E q \in Queries :
       /\ query' = [op |-> "children", segments |-> q.segments,
                    style |-> q.style, trailing |-> q.trailing]
       /\ answer' = childrenOf(mappings, normalizePath(Spell(q.segments, q.style, q.trailing)))
  /\ UNCHANGED <<engineVars, crVars, treeVars>>

NextTree == Build \/ AskTransformationIdentifier \/ AskChildren

SpecTree == InitTree /\ [][NextTree]_vars

(***************************************************************************)
(* Properties of the tree.                                                 *)
(***************************************************************************)
\* The name of the node with these segments below the root.
NodeOf(segments) == joinPath(<<RootName>> \o segments)

\* The query spells the path of NodeOf(query.segments): from the root, and
\* not as "//".
FromRoot ==
  /\ query.style \in {"absolute", "rooted"}
  /\ ~(query.style = "absolute" /\ query.segments = <<>> /\ query.trailing)

IsNode(node) == node \in DOMAIN mappings.graph.edges

\* C13: GetTransformationIdentifier returns the binding of the node the path
\* addresses, the same for "/x/y" and "root/x/y", with or without a trailing
\* separator, and an error for a path that is not a node of the tree (or a
\* node without a payload); the binding of a declaration is found under the
\* path of its node.
C13_IdentifierOfAddressedNode ==
  /\ query.op = "GetTransformationIdentifier" =>
       IF FromRoot /\ IsNode(NodeOf(query.segments))
          /\ NodeOf(query.segments) \in DOMAIN mappings.payloads
       THEN answer.ok /\ answer.Bind = mappings.payloads[NodeOf(query.segments)]
       ELSE ~answer.ok
  /\ lastBuild.ok =>
       /\ GetTransformationIdentifier(mappings, lastBuild.fullPath).ok
       /\ GetTransformationIdentifier(mappings, lastBuild.fullPath).Bind = lastBuild.node.Bind

\* C13's case: the binding of a node two levels down, asked for as
\* "/x/y/" with the trailing separator.
C13_Witness ==
  /\ query.op = "GetTransformationIdentifier"
  /\ query.style = "absolute" /\ query.trailing /\ Len(query.segments) >= 2
  /\ answer.ok /\ answer.Bind # ""

\* The parent and the segments of the last build: a subpath that starts
\* with the root is built from the root.
BuildSegments == expandPath(lastBuild.node.Subpath).segments

BuildFromRoot == Len(BuildSegments) > 0 /\ BuildSegments[1] = RootName

BuildParent == IF BuildFromRoot THEN RootName ELSE lastBuild.parent

BuildSubpath == IF BuildFromRoot THEN Tail(BuildSegments) ELSE BuildSegments

\* The node of the first k segments of the subpath below the parent.
Chain(k) ==
  IF k = 0 THEN BuildParent
  ELSE BuildParent \o <<pathSep>> \o joinPath(SubSeq(BuildSubpath, 1, k))

IsIn(x, seq) == \E i \in 1..Len(seq) : seq[i] = x

\* C16: the build of a declaration with the subpath s1/.../sn under the
\* parent P creates the nodes P/s1, ..., P/s1/.../sn, each the child of the
\* one before it (and so not of P), adds no other edge, and gives the
\* binding of the declaration to the last node only: the payloads of the
\* nodes between are as they were.
C16_SubpathBuildsAChain ==
  (lastBuild.ok /\ Len(BuildSubpath) >= 1) =>
    /\ lastBuild.fullPath = Chain(Len(BuildSubpath))
    /\ mappings.payloads[Chain(Len(BuildSubpath))] = lastBuild.node.Bind
    /\ \A k \in 1..Len(BuildSubpath) :
         /\ IsNode(Chain(k))
         /\ IsIn(Chain(k), Neighbors(mappings.graph, Chain(k - 1)))
         /\ k >= 2 => ~IsIn(Chain(k), Neighbors(mappings.graph, BuildParent))
         /\ k < Len(BuildSubpath) =>
              /\ Chain(k) \in DOMAIN mappings.payloads
                   <=> Chain(k) \in DOMAIN lastBuild.before.payloads
              /\ Chain(k) \in DOMAIN mappings.payloads =>
                   mappings.payloads[Chain(k)] = lastBuild.before.payloads[Chain(k)]
    /\ \A x \in DOMAIN mappings.graph.edges :
         \/ Neighbors(mappings.graph, x) = Neighbors(lastBuild.before.graph, x)
         \/ \E k \in 1..Len(BuildSubpath) :
              /\ x = Chain(k - 1)
              /\ Neighbors(mappings.graph, x) =
                   Append(Neighbors(lastBuild.before.graph, x), Chain(k))

\* C16's case: a subpath of two segments or more, built below a node that
\* is not the root, made new nodes.
C16_Witness ==
  /\ lastBuild.ok /\ ~BuildFromRoot /\ Len(BuildSubpath) >= 2
  /\ lastBuild.parent # RootName
  /\ ~(Chain(1) \in DOMAIN lastBuild.before.graph.edges)
  /\ ~(Chain(1) \in DOMAIN mappings.payloads)

\* `node` is `parent` with one more segment.
IsChildOf(node, parent) ==
  /\ HasPrefix(node, parent \o <<pathSep>>)
  /\ \A i \in (Len(parent) + 2)..Len(node) : node[i] # pathSep

\* The nodes below `parent`, in the order in which the graph got them.
RECURSIVE ChildrenInOrder(_, _)
ChildrenInOrder(nodes, parent) ==
  IF nodes = <<>> THEN <<>>
  ELSE IF IsChildOf(Head(nodes), parent)
  THEN <<Head(nodes)>> \o ChildrenInOrder(Tail(nodes), parent)
  ELSE ChildrenInOrder(Tail(nodes), parent)

Separator == <<pathSep>>

Pieces == {Separator, PathA, PathB, RootName}

PieceLists == UNION {[1..k -> Pieces] : k \in 0..MaxPieces}

RECURSIVE Flatten(_)
Flatten(pieces) == IF pieces = <<>> THEN <<>> ELSE Head(pieces) \o Flatten(Tail(pieces))

InitNormalize ==
  /\ transformations = makeTransformationMap(TransformationList(<<AltLiteral>>)).map
  /\ request = [path |-> Absolute(<<"t", "g">>), target |-> "target1", vendor |-> "cisco"]
  /\ EngineIdle
  /\ TreeBuilt
  /\ crNocPath = NocPath("", <<>>, <<>>)
  /\ crVendor = ""
  /\ crResult = "none"
  /\ query \in {[op |-> "normalizePath", pieces |-> pieces] : pieces \in PieceLists}
  /\ answer = NoAnswer

normalizedTwice(first) ==
  [ok |-> TRUE, first |-> first,
   second |-> IF first.ok THEN normalizePath(first.path) ELSE PathErr]

CallNormalizePath ==
  /\ query.op = "normalizePath"
  /\ answer = NoAnswer
  /\ answer' = normalizedTwice(normalizePath(Flatten(query.pieces)))
  /\ UNCHANGED <<engineVars, crVars, treeVars, query>>

SpecNormalize == InitNormalize /\ [][CallNormalizePath]_vars

Normalized == query.op = "normalizePath" /\ answer # NoAnswer

\* C14: normalizePath of a path that normalizePath returned succeeds and
\* returns the same path.
C14_NormalizeIdempotent ==
  (Normalized /\ answer.first.ok) => answer.second = answer.first

\* C14's case: a path that normalizePath changed at both ends.
C14_Witness ==
  /\ Normalized /\ answer.first.ok
  /\ Len(query.pieces) >= 3
  /\ query.pieces[1] = Separator /\ query.pieces[Len(query.pieces)] = Separator
  /\ answer.second.ok

TwoSeparators(pieces) ==
  \E i \in 1..(Len(pieces) - 1) : pieces[i] = Separator /\ pieces[i + 1] = Separator

WithoutTrailing(pieces) ==
  IF Len(pieces) > 0 /\ pieces[Len(pieces)] = Separator
  THEN SubSeq(pieces, 1, Len(pieces) - 1) ELSE pieces

WithRoot(pieces) ==
  IF Len(pieces) > 0 /\ pieces[1] = Separator THEN <<RootName>> \o pieces ELSE pieces

\* C15: normalizePath maps "/" to "root", a leading separator to the segment
\* "root", drops one trailing separator, adds no "root" to a relative path,
\* and returns an error for every path with two adjacent separators.
C15_NormalizePath ==
  Normalized =>
    IF query.pieces = <<Separator>> THEN answer.first = PathOk(RootName)
    ELSE IF TwoSeparators(query.pieces) THEN ~answer.first.ok
    ELSE answer.first = PathOk(Flatten(WithRoot(WithoutTrailing(query.pieces))))

\* C15's case: "/a/b/", which becomes "root/a/b".
C15_Witness ==
  /\ Normalized
  /\ query.pieces = <<Separator, PathA, Separator, PathB>> \o <<Separator>>
       \/ query.pieces = <<Separator, PathA, Separator, PathB>>
  /\ answer.first = PathOk(RootName \o <<pathSep>> \o PathA \o <<pathSep>> \o PathB)

(***************************************************************************)
(* Direct calls of Library.Call: a library, a name and a list of           *)
(* arguments.                                                              *)
(***************************************************************************)
\* The most arguments of a call.
MaxArgs == 3

Libraries == [registry |-> NewLibrary, dummy |-> makeDummyLibrary]

FuncNames == DOMAIN NewLibrary \cup DOMAIN makeDummyLibrary \cup {"undefined"}

Year == <<"1", "9", "7", "1">>

\* The values drawn for the argument at a position: a timestamp, a layout
\* and units for time_since_epoch, and a float at every position.
ArgValues(i) ==
  {FloatV(3, 2)} \cup
    CASE i = 1 -> {StringV(Year), StringV(<<"x">>)}
      [] i = 2 -> {StringV(<<"2", "0", "0", "6">>)}
      [] i = 3 -> {StringV(<<"s">>), StringV(<<"h">>)}
      [] OTHER -> {StringV(<<"x">>)}

ArgLists ==
  UNION {{args \in [1..k -> UNION {ArgValues(i) : i \in 1..k}] :
            \A i \in 1..k : args[i] \in ArgValues(i)} : k \in 0..MaxArgs}

InitLibrary ==
  /\ transformations = makeTransformationMap(TransformationList(<<AltLiteral>>)).map
  /\ request = [path |-> Absolute(<<"t", "g">>), target |-> "target1", vendor |-> "cisco"]
  /\ EngineIdle
  /\ TreeBuilt
  /\ crNocPath = NocPath("", <<>>, <<>>)
  /\ crVendor = ""
  /\ crResult = "none"
  /\ query \in {[op |-> "Call", l |-> l, funcName |-> funcName, args |-> args] :
                  l \in DOMAIN Libraries, funcName \in FuncNames, args \in ArgLists}
  /\ answer = NoAnswer

CallLibrary ==
  /\ query.op = "Call"
  /\ answer = NoAnswer
  /\ LET called == Call(Libraries[query.l], query.funcName, query.args)
     IN answer' = [ok |-> TRUE, out |-> called.out, invoked |-> called.invoked]
  /\ UNCHANGED <<engineVars, crVars, treeVars, query>>

SpecLibrary == InitLibrary /\ [][CallLibrary]_vars

LibraryCalled == query.op = "Call" /\ answer # NoAnswer

Registered == query.funcName \in DOMAIN Libraries[query.l]

\* The number of parameters in the declaration of each function (one value
\* for to_int, to_str and dummy, three for time_since_epoch, none otherwise).
Arity ==
  [to_int |-> 1, to_str |-> 1, time_since_epoch |-> 3, dummy |-> 1, noOutputs |-> 0,
   threeOutputs |-> 0, oneOutput |-> 0, secondOutputNotError |-> 0]

\* The functions that return no result, three results, or a second result
\* that is a string.
BadOutputs == {"noOutputs", "threeOutputs", "secondOutputNotError"}

\* C18: Call returns an error and invokes no function when the name is not
\* in the library or the number of arguments is not the number of parameters
\* of the function; it returns an error when the function it invoked
\* returns no result, more than two results, or a second result that is not
\* an error.
C18_CallRejects ==
  LibraryCalled =>
    /\ (~Registered \/ Len(query.args) # Arity[query.funcName]) =>
         (answer.out.st = "err" /\ answer.invoked = <<>>)
    /\ (Registered /\ query.funcName \in BadOutputs /\ query.args = <<>>) =>
         (answer.out.st = "err" /\ answer.invoked = <<query.funcName>>)

\* C18's case: dummy, of one parameter, called with no argument.
C18_Witness ==
  /\ LibraryCalled
  /\ query.l = "dummy"
  /\ query.funcName = "dummy"
  /\ query.args = <<>>
  /\ answer.out.st = "err"
  /\ answer.invoked = <<>>

\* C19: Call of a function of the registry with as many arguments as the
\* function has parameters, each a float or a string, returns a value or an
\* error and does not abort.
C19_CallNeverAborts ==
  (/\ LibraryCalled
   /\ query.l = "registry"
   /\ Registered
   /\ Len(query.args) = Arity[query.funcName]
   /\ \A i \in 1..Len(query.args) : query.args[i].t \in {"float", "string"})
    => answer.out.st \in {"ok", "err"}

(***************************************************************************)
(* Direct calls of oparse.Parse and oparse.Eval on a division: the tokens  *)
(* before the operator, the right operand (one factor) and the tokens      *)
(* after it, with a value for the variable z.                              *)
(***************************************************************************)
\* What stands before the "/": the left operand, alone or after a "+" or an
\* earlier division; one is a variable without a value and one raises a
\* string to a power.
Dividends ==
  {<<TNum(1)>>,
   <<TStr(<<"a">>)>>,
   <<TId("z")>>,
   <<TNum(6), TP("/"), TNum(2)>>,
   <<TNum(1), TP("+"), TNum(4)>>,
   <<TId("nosuch")>>,
   <<TStr(<<"a">>), TP("^"), TNum(2)>>}

\* The right operand: a literal, a subexpression, a variable, a function
\* result and a power.
Divisors ==
  {<<TNum(0)>>,
   <<TP("("), TNum(1), TP("-"), TNum(1), TP(")")>>,
   <<TId("z")>>,
   <<TId("to_int"), TP("("), TStr(<<"0">>), TP(")")>>,
   <<TNum(0), TP("^"), TNum(1)>>,
   <<TNum(2)>>,
   <<TStr(<<"0">>)>>}

\* What follows the right operand.
Continuations == {<<>>, <<TP("+"), TNum(1)>>, <<TP("*"), TNum(0)>>}

\* The values of the variable z: the integer 0, the floats 0 and 1, a string.
Contexts ==
  {[z |-> v] : v \in {IntV(0), FloatV(0, 1), FloatV(1, 1), StringV(<<"0">>)}}

InitDivision ==
  /\ transformations = makeTransformationMap(TransformationList(<<AltLiteral>>)).map
  /\ request = [path |-> Absolute(<<"t", "g">>), target |-> "target1", vendor |-> "cisco"]
  /\ EngineIdle
  /\ TreeBuilt
  /\ crNocPath = NocPath("", <<>>, <<>>)
  /\ crVendor = ""
  /\ crResult = "none"
  /\ query \in {[op |-> "Eval", left |-> l, right |-> r, then |-> t, ctx |-> ctx] :
                  l \in Dividends, r \in Divisors, t \in Continuations, ctx \in Contexts}
  /\ answer = NoAnswer

\* oparse.Parse, then oparse.Eval with Library.Call as the caller
ParseAndEval(ts, ctx) ==
  IF ~Parse(ts).ok THEN Err("could not parse string") ELSE Eval(Parse(ts).ast, ctx)

CallParseAndEval ==
  /\ query.op = "Eval"
  /\ answer = NoAnswer
  /\ answer' = [ok |-> TRUE,
                out |-> ParseAndEval(query.left \o <<TP("/")>> \o query.right \o query.then,
                                     query.ctx)]
  /\ UNCHANGED <<engineVars, crVars, treeVars, query>>

SpecDivision == InitDivision /\ [][CallParseAndEval]_vars

DivisionEvaluated == query.op = "Eval" /\ answer # NoAnswer

\* The right operand, evaluated alone, is the float 0.
DivisorIsZero == ParseAndEval(query.right, query.ctx) = Ok(FloatV(0, 1))

\* The evaluation of what stands before the "/" does not abort the program.
DividendReturns == ParseAndEval(query.left, query.ctx).st # "panic"

MaxOperators == 2

Literals == {1, 2}

ArithmeticOperators == {"+", "-", "*", "/", "^"}

\* The trees of exactly k operators: <<"lit", n>> or <<operator, left, right>>.
RECURSIVE Trees(_)
Trees(k) ==
  IF k = 0 THEN {<<"lit", n>> : n \in Literals}
  ELSE UNION {{<<o, l, r>> : o \in ArithmeticOperators, l \in Trees(i), r \in Trees(k - 1 - i)} :
                i \in 0..(k - 1)}

\* How tightly the operator at the top of a tree binds.
Precedence(tree) ==
  CASE tree[1] \in {"+", "-"} -> 0
    [] tree[1] \in {"*", "/"} -> 1
    [] tree[1] = "^" -> 2
    [] tree[1] = "lit" -> 3

\* The tokens of a tree at a place that takes an operand of the given
\* precedence or tighter: the left operand of an operator may bind as the
\* operator does, its right operand must bind tighter, and both operands of
\* "^" are a literal or in parentheses.
RECURSIVE Written(_, _)
Written(tree, level) ==
  LET own == Precedence(tree)
      body == IF tree[1] = "lit" THEN <<TNum(tree[2])>>
              ELSE Written(tree[2], IF own = 2 THEN 3 ELSE own)
                     \o <<TP(tree[1])>> \o Written(tree[3], IF own = 2 THEN 3 ELSE own + 1)
  IN IF own < level THEN <<TP("(")>> \o body \o <<TP(")")>> ELSE body

Undefined == [def |-> FALSE, v |-> NilV]

Defined(v) == [def |-> TRUE, v |-> v]

\* The value of a tree with the operator at each node applied to the values
\* of its two subtrees; a division by zero has no value.
RECURSIVE Mathematical(_)
Mathematical(tree) ==
  IF tree[1] = "lit" THEN Defined(FloatV(tree[2], 1))
  ELSE LET l == Mathematical(tree[2])
           r == Mathematical(tree[3])
       IN IF ~l.def \/ ~r.def THEN Undefined
          ELSE CASE tree[1] = "+" -> Defined(FloatV(l.v.n * r.v.d + r.v.n * l.v.d, l.v.d * r.v.d))
                 [] tree[1] = "-" -> Defined(FloatV(l.v.n * r.v.d - r.v.n * l.v.d, l.v.d * r.v.d))
                 [] tree[1] = "*" -> Defined(FloatV(l.v.n * r.v.n, l.v.d * r.v.d))
                 [] tree[1] = "/" -> IF r.v.n = 0 THEN Undefined
                                     ELSE Defined(FloatV(l.v.n * r.v.d, l.v.d * r.v.n))
                 [] tree[1] = "^" -> Defined(Pow(l.v, r.v))

\* Every exponent of the tree is a whole number and every operand of "^",
\* "*", "/", "+" and "-" is finite.
RECURSIVE Computable(_)
Computable(tree) ==
  \/ tree[1] = "lit"
  \/ /\ Computable(tree[2])
     /\ Computable(tree[3])
     /\ LET l == Mathematical(tree[2])
            r == Mathematical(tree[3])
        IN (l.def /\ r.def) =>
             /\ l.v.d # 0
             /\ r.v.d # 0
             /\ tree[1] = "^" => r.v.d = 1

Arithmetic == {tree \in UNION {Trees(k) : k \in 0..MaxOperators} : Computable(tree)}

InitArithmetic ==
  /\ transformations = makeTransformationMap(TransformationList(<<AltLiteral>>)).map
  /\ request = [path |-> Absolute(<<"t", "g">>), target |-> "target1", vendor |-> "cisco"]
  /\ EngineIdle
  /\ TreeBuilt
  /\ crNocPath = NocPath("", <<>>, <<>>)
  /\ crVendor = ""
  /\ crResult = "none"
  /\ query \in {[op |-> "Arithmetic", tree |-> tree] : tree \in Arithmetic}
  /\ answer = NoAnswer

CallArithmetic ==
  /\ query.op = "Arithmetic"
  /\ answer = NoAnswer
  /\ answer' = [ok |-> TRUE, parsed |-> Parse(Written(query.tree, 0)).ok,
                out |-> ParseAndEval(Written(query.tree, 0), EmptyContext)]
  /\ UNCHANGED <<engineVars, crVars, treeVars, query>>

SpecArithmetic == InitArithmetic /\ [][CallArithmetic]_vars

ArithmeticEvaluated == query.op = "Arithmetic" /\ answer # NoAnswer

\* C21: an arithmetic expression over literals and parentheses parses, and
\* Eval returns the value of its tree ("^" before "*" and "/", these before
\* "+" and "-", equal precedence from left to right), or an error when a
\* divisor is zero.
C21_PrecedenceAndAssociativity ==
  ArithmeticEvaluated =>
    /\ answer.parsed
    /\ answer.out = IF Mathematical(query.tree).def THEN Ok(Mathematical(query.tree).v)
                    ELSE Err("division by 0")

\* C21's case: 2 - 1 - 1 is 0 and 2 / 2 / 2 is a half.
C21_Witness ==
  /\ ArithmeticEvaluated
  /\ \/ /\ query.tree = <<"-", <<"-", <<"lit", 2>>, <<"lit", 1>>>>, <<"lit", 1>>>>
        /\ answer.out = Ok(FloatV(0, 1))
     \/ /\ query.tree = <<"+", <<"lit", 2>>, <<"*", <<"lit", 2>>, <<"lit", 2>>>>>>
        /\ answer.out = Ok(FloatV(6, 1))

(***************************************************************************)
(* Direct calls of timeSinceEpoch with the format "ntp".                   *)
(***************************************************************************)
Chars8(a, b, c, d, e, f, g, h) == <<a, b, c, d, e, f, g, h>>

\* The high words: 1900, the second before 1970, 1970, 2018, the last one.
HighWords ==
  {Chars8("0", "0", "0", "0", "0", "0", "0", "0"),
   Chars8("8", "3", "a", "a", "7", "e", "7", "f"),
   Chars8("8", "3", "a", "a", "7", "e", "8", "0"),
   Chars8("d", "f", "c", "4", "0", "b", "6", "8"),
   Chars8("f", "f", "f", "f", "f", "f", "f", "f")}

LowWords ==
  {Chars8("0", "0", "0", "0", "0", "0", "0", "0"),
   Chars8("0", "0", "0", "0", "0", "0", "0", "1"),
   Chars8("8", "0", "0", "0", "0", "0", "0", "0"),
   Chars8("8", "1", "4", "7", "a", "f", "7", "8"),
   Chars8("F", "F", "F", "F", "F", "F", "F", "F")}

\* What stands between the groups of four digits: nothing, a space, a tab.
Gaps == {<<>>, <<" ">>, <<"\t">>}

Stamp(hi, lo, gap) ==
  SubSeq(hi, 1, 4) \o gap \o SubSeq(hi, 5, 8) \o gap \o SubSeq(lo, 1, 4) \o gap \o SubSeq(lo, 5, 8)

\* Timestamps that are no hexadecimal number of 64 bits: no digit, a letter
\* that is no digit, a digit too many.
Unparseable ==
  {<<>>,
   <<"x">>,
   Stamp(Chars8("d", "f", "c", "4", "0", "b", "6", "8"),
         Chars8("8", "1", "4", "7", "a", "f", "7", "g"), <<" ">>),
   <<"1">> \o Stamp(Chars8("0", "0", "0", "0", "0", "0", "0", "0"),
                    Chars8("0", "0", "0", "0", "0", "0", "0", "0"), <<>>)}

UnitNames == {<<"s">>, <<"m", "s">>, <<"n", "s">>, <<"h">>}

NtpQueries ==
  {[op |-> "timeSinceEpoch", hi |-> hi, lo |-> lo, gap |-> gap,
    timeStamp |-> Stamp(hi, lo, gap), units |-> units] :
     hi \in HighWords, lo \in LowWords, gap \in Gaps, units \in UnitNames}
  \cup
  {[op |-> "timeSinceEpoch", hi |-> <<>>, lo |-> <<>>, gap |-> <<>>,
    timeStamp |-> timeStamp, units |-> units] :
     timeStamp \in Unparseable, units \in UnitNames}

InitNtp ==
  /\ transformations = makeTransformationMap(TransformationList(<<AltLiteral>>)).map
  /\ request = [path |-> Absolute(<<"t", "g">>), target |-> "target1", vendor |-> "cisco"]
  /\ EngineIdle
  /\ TreeBuilt
  /\ crNocPath = NocPath("", <<>>, <<>>)
  /\ crVendor = ""
  /\ crResult = "none"
  /\ query \in NtpQueries
  /\ answer = NoAnswer

CallTimeSinceEpoch ==
  /\ query.op = "timeSinceEpoch"
  /\ answer = NoAnswer
  /\ answer' = [ok |-> TRUE,
                count |-> timeCount(StringV(query.timeStamp), <<"n", "t", "p">>, query.units)]
  /\ UNCHANGED <<engineVars, crVars, treeVars, query>>

SpecNtp == InitNtp /\ [][CallTimeSinceEpoch]_vars

NtpCounted == query.op = "timeSinceEpoch" /\ answer # NoAnswer

\* The high 32 bits minus 2208988800.
NtpSeconds == SignedAdd(Signed(FALSE, HexToNat(query.hi)), Signed(TRUE, offset))

\* The seconds times 10^9 plus floor(low 32 bits * 10^9 / 2^32).
NtpNanoseconds ==
  SignedAdd(TimesBillion(NtpSeconds),
            Signed(FALSE, ShiftRight32(BigMul(BigMul(HexToNat(query.lo), 100000), 10000))))

NtpExpected ==
  CASE query.units = <<"s">> -> NtpSeconds
    [] query.units = <<"n", "s">> -> NtpNanoseconds
    [] query.units = <<"m", "s">> -> QuoMillion(NtpNanoseconds)

NtpStamp == NtpCounted /\ query.hi # <<>> /\ query.units # <<"h">>

\* The numbers of C22 for the timestamps written without a gap or with
\* spaces.
NtpArithmetic ==
  (NtpStamp /\ query.gap # <<"\t">>) => answer.count = Counted(NtpExpected)

\* C22: with the format "ntp", a timestamp of 64 bits written with or
\* without whitespace between its digits gives the high 32 bits minus
\* 2208988800 in s, that times 10^9 plus floor(low 32 bits * 10^9 / 2^32) in
\* ns, and the ns divided by 10^6 toward zero in ms.
C22_NtpConversion ==
  NtpStamp => answer.count = Counted(NtpExpected)

\* C27: with the format "ntp", a timestamp that is not 1 to 16 hexadecimal
\* digits once its whitespace is removed gives an error.
C27_UnparsedNtpIsAnError ==
  (NtpCounted /\ query.hi = <<>>) => answer.count.st = "err"

(***************************************************************************)
(* The construction of the engine, and the references of a configuration.  *)
(***************************************************************************)
\* newOrismologer: the tree of the mappings and the map of the rules; an
\* error of NewTree or of makeTransformationMap is the only way to fail.
newOrismologer(mappingsList, list) ==
  IF ~NewTree(mappingsList).ok THEN [ok |-> FALSE, mappings |-> EmptyTree, transformations |-> <<>>]
  ELSE IF ~makeTransformationMap(list).ok
  THEN [ok |-> FALSE, mappings |-> EmptyTree, transformations |-> <<>>]
  ELSE [ok |-> TRUE, mappings |-> NewTree(mappingsList).t,
        transformations |-> makeTransformationMap(list).map]

\* The engine is one that newOrismologer returned for the configuration.
Constructed ==
  \E genExpressions \in GenExpressions :
    /\ newOrismologer(MappingsList, TransformationList(genExpressions)).ok
    /\ mappings = newOrismologer(MappingsList, TransformationList(genExpressions)).mappings
    /\ transformations =
         newOrismologer(MappingsList, TransformationList(genExpressions)).transformations

\* A node of the tree is bound to a name that no rule has.
UnresolvableBinding ==
  \E node \in DOMAIN mappings.payloads :
    /\ mappings.payloads[node] # ""
    /\ mappings.payloads[node] \notin DOMAIN transformations

\* An expression that parses uses a variable that is neither a leaf of its
\* rule nor a rule.
UnresolvableVariable ==
  \E name \in DOMAIN transformations :
    \E i \in 1..Len(transformations[name].Expressions) :
      LET p == parseAndValidateExpression(transformations[name].Expressions[i])
      IN /\ p.ok
         /\ \E v \in 1..Len(p.variables) :
              variableCase(p.variables[v], getNocPaths(transformations[name])) = "undefined"

\* C23: no engine is constructed from a configuration with an unresolvable
\* reference: a binding of the tree that names no rule, or a variable of an
\* expression that names neither a leaf of its rule nor a rule.
C23_ConstructionRejectsUnresolvable ==
  Constructed => ~(UnresolvableBinding \/ UnresolvableVariable)

(***************************************************************************)
(* The build of a tree from mappings that also hold declarations with an   *)
(* empty subpath, one call of OcTree.build at a time.                      *)
(***************************************************************************)
\* An empty subpath at the top, below "/a", and with a child of its own.
DeclEmpty == OpenConfigNode(<<>>, "t_0", <<>>)

DeclEmptyChild ==
  OpenConfigNode(Absolute(<<"a">>), "t_a", << OpenConfigNode(<<>>, "t_0", <<>>) >>)

DeclEmptyParent ==
  OpenConfigNode(<<>>, "t_0", << OpenConfigNode(Relative(<<"b">>), "t_b", <<>>) >>)

MappingsPool == DeclPool \cup {DeclEmpty, DeclEmptyChild, DeclEmptyParent}

MappingsForests == UNION {[1..k -> MappingsPool] : k \in 1..MaxNodes}

InitMappings ==
  /\ transformations = makeTransformationMap(TransformationList(<<AltLiteral>>)).map
  /\ request = [path |-> Absolute(<<"t", "g">>), target |-> "target1", vendor |-> "cisco"]
  /\ EngineIdle
  /\ NoDirectCall
  /\ mappings = EmptyTree
  /\ \E forest \in MappingsForests : todo = Pending(RootName, forest)
  /\ lastBuild = NoBuild
  /\ treeStatus = "building"

SpecMappings == InitMappings /\ [][Build]_vars

\* The full path of the last build as the subpath of its declaration gives
\* it: from the root when the first segment is the root, else below the
\* full path of the enclosing declaration.
DeclaredFullPath ==
  IF BuildSegments[1] = RootName THEN joinPath(<<RootName>> \o Tail(BuildSegments))
  ELSE lastBuild.parent \o <<pathSep>> \o joinPath(BuildSegments)

\* C24: a declaration whose subpath starts with the root segment is placed
\* under the root whatever declaration encloses it, the remaining segments
\* appended to the root; any other subpath is appended to the full path of
\* the enclosing declaration.
C24_RootSubpathResetsParent ==
  lastBuild.ok =>
    /\ lastBuild.fullPath = DeclaredFullPath
    /\ IsNode(DeclaredFullPath)
    /\ DeclaredFullPath \in DOMAIN mappings.payloads
    /\ mappings.payloads[DeclaredFullPath] = lastBuild.node.Bind

\* C24's case: "/c" declared inside the declaration of "root/a/".
C24_Witness ==
  /\ lastBuild.ok
  /\ BuildSegments[1] = RootName /\ Len(BuildSegments) = 2
  /\ lastBuild.parent # RootName
  /\ lastBuild.fullPath = NodeOf(<<PathC>>)
  /\ ~IsNode(lastBuild.parent \o <<pathSep>> \o RootName)

TreeNodes == DOMAIN mappings.graph.edges

\* How many times the node is an end of an edge.
RECURSIVE Occurrences(_, _)
Occurrences(x, seq) ==
  IF seq = <<>> THEN 0
  ELSE (IF Head(seq) = x THEN 1 ELSE 0) + Occurrences(x, Tail(seq))

RECURSIVE InEdges(_, _)
InEdges(node, parents) ==
  IF parents = {} THEN 0
  ELSE LET p == CHOOSE p \in parents : TRUE
       IN Occurrences(node, mappings.graph.edges[p]) + InEdges(node, parents \ {p})

\* The node is the root or the end of an edge from a node that is within
\* k - 1 edges of the root.
RECURSIVE WithinOfRoot(_, _)
WithinOfRoot(node, k) ==
  \/ node = RootName
  \/ /\ k > 0
     /\ \E p \in TreeNodes : IsIn(node, mappings.graph.edges[p]) /\ WithinOfRoot(p, k - 1)

\* C28: at every point of a build the tree is a tree rooted at "root": an
\* edge goes from a node P to a node P/segment, no edge ends at the root,
\* every other node is the end of exactly one edge and is reached from the
\* root, and every path with a payload is a node.
C28_TreeRootedAtRoot ==
  /\ RootName \in TreeNodes
  /\ InEdges(RootName, TreeNodes) = 0
  /\ \A p \in TreeNodes :
       \A i \in 1..Len(mappings.graph.edges[p]) :
         /\ mappings.graph.edges[p][i] \in TreeNodes
         /\ IsChildOf(mappings.graph.edges[p][i], p)
  /\ \A node \in TreeNodes \ {RootName} :
       /\ InEdges(node, TreeNodes) = 1
       /\ WithinOfRoot(node, Cardinality(TreeNodes))
  /\ DOMAIN mappings.payloads \subseteq TreeNodes

\* C28's case: a tree with a node three levels down, a child declared
\* twice, and payloads.
C28_Witness ==
  /\ treeStatus = "built"
  /\ IsNode(NodeOf(<<PathA, PathB, PathC>>))
  /\ NodeOf(<<PathC, PathB>>) \in DOMAIN mappings.payloads
  /\ mappings.payloads[NodeOf(<<PathC, PathB>>)] = "t_2"

\* normalizePath returns the path as it is.
Canonical(path) == normalizePath(path) = PathOk(path)

\* C29: after a build without an error every node and every path with a
\* payload is written as normalizePath writes it, and the binding of each
\* declaration built is what GetTransformationIdentifier returns for the
\* full path of the declaration.
C29_KeysAreCanonical ==
  /\ treeStatus = "built" =>
       \A path \in TreeNodes \cup DOMAIN mappings.payloads : Canonical(path)
  /\ lastBuild.ok =>
       /\ GetTransformationIdentifier(mappings, lastBuild.fullPath).ok
       /\ GetTransformationIdentifier(mappings, lastBuild.fullPath).Bind = lastBuild.node.Bind

(***************************************************************************)
(* Direct calls of oparse.Parse and oparse.Eval for one operand, or two    *)
(* operands with an operator between, the operands of every kind of        *)
(* Value: literals, a variable, function results and a subexpression.      *)
(***************************************************************************)
Operands ==
  {<<TNum(2)>>,
   <<TStr(<<"a">>)>>,
   <<TId("z")>>,
   <<TId("to_int"), TP("("), TStr(<<"3">>), TP(")")>>,
   <<TId("to_str"), TP("("), TStr(<<"b">>), TP(")")>>,
   <<TP("("), TNum(1), TP("+"), TNum(1), TP(")")>>}

\* No operator (the left operand alone), or one of the five.
OperandOperators == {"", "+", "-", "*", "/", "^"}

\* The values of the variable z: an int, a float, a string, and a value of
\* another type.
OperandContexts == {[z |-> v] : v \in {IntV(3), FloatV(2, 1), StringV(<<"s">>), NilV}}

OperandQueries ==
  {[op |-> "Eval", left |-> l, operator |-> o, right |-> r, ctx |-> ctx] :
     l \in Operands, o \in OperandOperators, r \in Operands, ctx \in OperandContexts}

InitOperands ==
  /\ transformations = makeTransformationMap(TransformationList(<<AltLiteral>>)).map
  /\ request = [path |-> Absolute(<<"t", "g">>), target |-> "target1", vendor |-> "cisco"]
  /\ EngineIdle
  /\ TreeBuilt
  /\ crNocPath = NocPath("", <<>>, <<>>)
  /\ crVendor = ""
  /\ crResult = "none"
  /\ query \in OperandQueries
  /\ answer = NoAnswer

OperandsWritten ==
  IF query.operator = "" THEN query.left
  ELSE query.left \o <<TP(query.operator)>> \o query.right

CallEvalOperands ==
  /\ query.op = "Eval"
  /\ answer = NoAnswer
  /\ answer' = [ok |-> TRUE, out |-> ParseAndEval(OperandsWritten, query.ctx)]
  /\ UNCHANGED <<engineVars, crVars, treeVars, query>>

SpecOperands == InitOperands /\ [][CallEvalOperands]_vars

OperandsEvaluated == query.op = "Eval" /\ answer # NoAnswer

LeftOperand == ParseAndEval(query.left, query.ctx)

RightOperand == ParseAndEval(query.right, query.ctx)

\* Both operands evaluate, one of them to a string.
StringOperand ==
  /\ LeftOperand.st = "ok" /\ RightOperand.st = "ok"
  /\ LeftOperand.v.t = "string" \/ RightOperand.v.t = "string"

\* C25: "^" with a base or an exponent that evaluates to a string gives an
\* error of the evaluation.
C25_PowerOfStringIsAnError ==
  (OperandsEvaluated /\ query.operator = "^" /\ StringOperand) => answer.out.st = "err"

\* The other operators that are not "+", for comparison: a string operand
\* is an error.
StringOperandIsAnError ==
  (OperandsEvaluated /\ query.operator \in {"-", "*", "/"} /\ StringOperand) =>
    answer.out.st = "err"

\* C26: no evaluation meets an operand at a binary operator that is not a
\* float or a string (Operator.eval neither ends the program for an int nor
\* refuses an unsupported type), and what an evaluation returns is a float
\* or a string.
C26_OperandsAreFloatOrString ==
  OperandsEvaluated =>
    /\ answer.out # Panic("log.Fatal: evaluated parser output contained an int")
    /\ answer.out # Err("unsupported type")
    /\ answer.out.st = "ok" => answer.out.v.t \in {"float", "string"}

\* C26's case: the int of a variable added to the int that to_int returns.
C26_Witness ==
  /\ OperandsEvaluated
  /\ query.left = <<TId("z")>> /\ query.ctx.z = IntV(3) /\ query.operator = "+"
  /\ query.right = <<TId("to_int"), TP("("), TStr(<<"3">>), TP(")")>>
  /\ answer.out = Ok(FloatV(6, 1))

(***************************************************************************)
(* The engine with rules whose references make no cycle: the rules of the  *)
(* configuration without "ping" and "pong", and "gen" without the          *)
(* alternative that names itself.  The recursion of eval is then at most   *)
(* as deep as there are rules, so the stack of the process is not          *)
(* exhausted.                                                              *)
(***************************************************************************)
AcyclicGenExpressions == UNION {[1..k -> AltPool \ {AltSelf}] : k \in 1..MaxAlts}

AcyclicList(genExpressions) ==
  SelectSeq(TransformationList(genExpressions), LAMBDA t : t.Bind \notin {"ping", "pong"})

InitAcyclic ==
  /\ \E genExpressions \in AcyclicGenExpressions :
       transformations = makeTransformationMap(AcyclicList(genExpressions)).map
  /\ TreeBuilt
  /\ request \in [path : RequestPaths, target : TargetNames, vendor : VendorNames]
  /\ GetTransformationIdentifier(mappings, request.path).Bind # "gen"
       => transformations["gen"].Expressions = <<AltLiteral>>
  /\ EngineIdle
  /\ NoDirectCall

NextAcyclic ==
  \/ CallEval
  \/ NextExpression
  \/ NoneEvaluable
  \/ EvalNocPathVariable
  \/ EvalSubTransformation
  \/ EvalUndefinedVariable
  \/ EvalExpression

SpecAcyclic == InitAcyclic /\ [][NextAcyclic]_vars

\* The variables of an expression of the rule that evalVariables evaluates
\* as rules, in their order.
alternativeReferences(name, p) ==
  IF ~p.ok THEN <<>>
  ELSE SelectSeq(p.variables,
                 LAMBDA v : variableCase(v, getNocPaths(transformations[name])) = "transformation")

RECURSIVE ReferencesFrom(_, _)
ReferencesFrom(name, i) ==
  IF i > Len(transformations[name].Expressions) THEN <<>>
  ELSE alternativeReferences(name,
                             parseAndValidateExpression(transformations[name].Expressions[i]))
         \o ReferencesFrom(name, i + 1)

\* The rules that each rule points to, once for each use.
References == [name \in DOMAIN transformations |-> ReferencesFrom(name, 1)] @@ <<>>

RECURSIVE PointsWithin(_, _, _, _)
PointsWithin(references, from, to, k) ==
  /\ k > 0
  /\ \E i \in 1..Len(references[from]) :
       references[from][i] = to \/ PointsWithin(references, references[from][i], to, k - 1)

Acyclic(references) ==
  \A name \in DOMAIN references :
    ~PointsWithin(references, name, name, Cardinality(DOMAIN references))

\* No rule points to itself through one reference or more.
ReferenceGraphAcyclic == Acyclic(References)

\* The calls of eval for a rule when every alternative of every rule is
\* tried and every variable evaluated: one, and those of each reference.
RECURSIVE EvalCalls(_, _, _), SumOfEvalCalls(_, _, _)
EvalCalls(references, name, k) ==
  IF k = 0 \/ name \notin DOMAIN references THEN 1
  ELSE 1 + SumOfEvalCalls(references, references[name], k - 1)

SumOfEvalCalls(references, names, k) ==
  IF names = <<>> THEN 0
  ELSE EvalCalls(references, Head(names), k) + SumOfEvalCalls(references, Tail(names), k)

\* The bound of the calls of eval for the request.
CallBound ==
  EvalCalls(References, GetTransformationIdentifier(mappings, request.path).Bind,
            Cardinality(DOMAIN transformations))

\* The evaluation ended, with what eval returned or with the end of the
\* program.
Terminated == pc \in {"done", "crashed"}

\* Every step of an evaluation adds to the log or ends the evaluation.
AcyclicEvaluationProgresses ==
  [][Cardinality(log') > Cardinality(log) \/ Terminated']_vars

\* With rules that make no cycle the calls of eval stay within the bound that
\* the alternatives and the variables of the rules give.
AcyclicCallsBounded == (ReferenceGraphAcyclic /\ calls > 0) => calls <= CallBound

\* C30: with rules whose references make no cycle, no evaluation ends
\* otherwise than by returning a value or an error, and it makes no more
\* calls of eval than the alternatives and the variables of the rules give.
C30_AcyclicEvaluationReturns ==
  ReferenceGraphAcyclic =>
    /\ calls > 0 => calls <= CallBound
    /\ Terminated => pc = "done" /\ result.st \in {"ok", "err"}

====
